---- MODULE Spec2Model ----
(***************************************************************************)
(* EnvoyNPM: reconciliation of a reverse-proxy manager's host list with    *)
(* the running containers that declare NPM_HOST / NPM_PORT.                *)
(*                                                                         *)
(*   Spec     the service (envoy_service.py) driven by the Docker monitor  *)
(*            (docker_monitor.py): service start, start / stop events and  *)
(*            the scheduled full sync, each handler one atomic step.       *)
(*   SpecSync _sync_all called repeatedly by a caller that goes on after   *)
(*            an exception, with nothing else changing.                    *)
(*   SpecReq  the API client's retry / re-authentication loop              *)
(*            (npm_api.py, _make_request), one HTTP exchange per step.     *)
(*   SpecStart the start path alone (service start, start events, full    *)
(*            syncs) over containers with and without an IP.               *)
(*   SpecFlags the boolean flags from the container's environment to the  *)
(*            record sent; SpecIp _get_container_ip over any networks.     *)
(*   SpecLoad _load_npm_hosts as a step of its own, over host lists with  *)
(*            every shape of meta and of domain_names.                     *)
(*            SpecNames: the same with the running container declaring    *)
(*            any domain, the second name of a listed host among them.     *)
(*   SpecCert the certificate_id field of _prepare_host_data over texts    *)
(*            and integers.                                                *)
(*   SpecRace the scheduled _sync_all statement by statement, interleaved   *)
(*            with the handlers of the event loop (two threads);           *)
(*            SpecStopRace adds containers that stop, SpecEvents the       *)
(*            stream of die / stop events consumed oldest first.           *)
(*   SpecMain main.py: the stop event, the scheduler thread's loop, the    *)
(*            event loop and the shutdown sequence around the service;     *)
(*            SpecMainFair adds the fairness of the scheduler thread.      *)
(*                                                                         *)
(* Absent values: Python's None, "" and a missing key are written 0 for    *)
(* numbers and "" for strings.                                             *)
(***************************************************************************)
EXTENDS Integers, Sequences, FiniteSets, TLC

\* ------------------------------------------------------------------ bounds
MaxDomain == 2
MaxContainer == 2
MaxIp == 2
MaxHostId == 3
MaxEdits == 1
MaxRetries == 3
MaxDelay == 2
MaxDepth == 3
MaxListed == 2
MaxNetworks == 2
MaxText == 3

Domains == 1..MaxDomain
CIDs == 1..MaxContainer
IPs == 1..MaxIp
HostIds == 1..MaxHostId

VARIABLES
    \* ---- EnvoyService / DockerMonitor state
    current_npm_hosts,   \* by-domain cache: domain -> host record
    managed_host_ids,    \* owned-ids
    active_containers,   \* DockerMonitor.active_containers (keys)
    phase,               \* "init" | "starting" | "streaming" | "exited" (main returned 1)
                         \* SpecMain also: "waiting" (start() returned True, main at
                         \* stop_event.wait()) | "returned" (main returned 0)
    sched,               \* scheduler thread: "off" | "running" | "dead"
    \* ---- the world around the service
    remote,              \* the proxy manager's host list: id -> host record
    nextId,              \* next id the proxy manager assigns
    env,                 \* container -> environment (fixed at creation)
    containers,          \* container -> [running, ip]
    edits,               \* hosts created or deleted by hand so far
    \* ---- observation of the last handler
    last,
    \* ---- NPMApiClient._make_request (SpecReq)
    req,
    \* ---- main.py: stop signal, scheduler thread, shutdown (SpecMain); the
    \*      scheduler thread inside _sync_all (SpecRace)
    proc,
    \* ---- a helper called on its own: [fn, args, ret] (SpecFlags, SpecIp)
    probe

svcVarsOnly == <<current_npm_hosts, managed_host_ids, active_containers, phase, sched,
                 remote, nextId, env, containers, edits, last>>
svcVars == <<current_npm_hosts, managed_host_ids, active_containers, phase, sched,
             remote, nextId, env, containers, edits, last, proc, probe>>
vars == <<current_npm_hosts, managed_host_ids, active_containers, phase, sched,
          remote, nextId, env, containers, edits, last, req, proc, probe>>

\* ------------------------------------------------------------- dictionaries
EmptyMap == [x \in {} |-> 0]

Put(f, k, v) == [x \in (DOMAIN f) \cup {k} |-> IF x = k THEN v ELSE f[x]]

ManagedTag == "EnvoyNPM"

\* meta as the service sees it after parsing: a dict with (possibly missing) keys,
\* or whatever else json.loads made of a string
EmptyMeta == [type |-> "dict", managed_by |-> "", container_id |-> 0]

\* The meta of a host record is [form, managed_by, container_id]; form is the
\* shape of the value the API returned and the other two are what its text
\* mentions:
\*   "dict"       a JSON object
\*   "str"        a string holding the JSON text of an object
\*   "str_array"  a string holding JSON text that is not an object ("[...]")
\*   "str_bad"    a string that is not JSON (a truncated object)
\*   "str_empty"  the empty string
\*   "missing"    no meta key in the record (the callers pass the default "{}")
\*   "null"       a value that is neither a dict nor a string
MetaForms == {"dict", "str", "str_array", "str_bad", "str_empty", "missing", "null"}

\* _parse_meta: a dict is returned as is; a string is json.loads'ed and the
\* result returned whatever its type, "" and undecodable strings give {}; any
\* other type gives {}.
parse_meta(meta_data) ==
    IF meta_data.form = "dict"
    THEN [type |-> "dict", managed_by |-> meta_data.managed_by,
          container_id |-> meta_data.container_id]
    ELSE IF meta_data.form = "str"
    THEN [type |-> "dict", managed_by |-> meta_data.managed_by,
          container_id |-> meta_data.container_id]
    ELSE IF meta_data.form = "str_array"
    THEN [type |-> "list", managed_by |-> "", container_id |-> 0]
    ELSE EmptyMeta

\* ------------------------------------------------------ container descriptor
\* _extract_npm_env: both NPM_HOST and NPM_PORT are required
has_npm_config(e) == ~(e.NPM_HOST = 0 \/ e.NPM_PORT = 0)

extract_npm_env(e) ==
    [host |-> e.NPM_HOST, port |-> e.NPM_PORT, network |-> ""]

\* get_container_info: inspection of the container as it is now
get_container_info(c) ==
    [id |-> c,
     has_npm_config |-> has_npm_config(env[c]),
     npm_config |-> extract_npm_env(env[c]),
     networks |-> <<[name |-> "bridge", ip_address |-> containers[c].ip]>>]

RECURSIVE first_usable_ip(_)
first_usable_ip(networks) ==
    IF networks = <<>> THEN 0
    ELSE IF Head(networks).ip_address # 0 THEN Head(networks).ip_address
    ELSE first_usable_ip(Tail(networks))

preferred_ip(networks, name) ==
    LET hit == {i \in 1..Len(networks) : networks[i].name = name}
    IN IF hit = {} THEN 0 ELSE networks[CHOOSE i \in hit : TRUE].ip_address

\* (variant: NPM_NETWORK not looked at)
get_container_ip_first_only(container_info) == first_usable_ip(container_info.networks)

\* _get_container_ip
get_container_ip(container_info) ==
    LET networks == container_info.networks
        preferred_network == container_info.npm_config.network
    IN IF preferred_network # "" /\ preferred_ip(networks, preferred_network) # 0
       THEN preferred_ip(networks, preferred_network)
       ELSE first_usable_ip(networks)

\* (variant: the port of the container not passed on)
prepare_host_data_default_port(domain, forward_host, forward_port, container_id) ==
    [domain_names |-> <<domain>>,
     forward_host |-> forward_host,
     forward_port |-> 80,
     meta |-> [form |-> "dict", managed_by |-> ManagedTag, container_id |-> container_id],
     enabled |-> TRUE]

\* _prepare_host_data
prepare_host_data(domain, forward_host, forward_port, container_id) ==
    [domain_names |-> <<domain>>,
     forward_host |-> forward_host,
     forward_port |-> forward_port,
     meta |-> [form |-> "dict", managed_by |-> ManagedTag, container_id |-> container_id],
     enabled |-> TRUE]

\* (variant: {**update, **host}, the old values win)
Merge_host_wins(host, update) == host

\* {**host, **update}: the keys of update replace those of host
Merge(host, update) ==
    [k \in DOMAIN host |-> IF k \in DOMAIN update THEN update[k] ELSE host[k]]

\* ------------------------------------------------------------- proxy manager
first_domain(host) ==
    IF Len(host.domain_names) > 0 THEN host.domain_names[1] ELSE 0

DomainTaken(rem, d) ==
    \E h \in DOMAIN rem : \E i \in 1..Len(rem[h].domain_names) : rem[h].domain_names[i] = d

RECURSIVE ListOf(_, _)
ListOf(rem, ids) ==
    IF ids = {} THEN <<>>
    ELSE LET m == CHOOSE x \in ids : \A y \in ids : x <= y
         IN <<rem[m]>> \o ListOf(rem, ids \ {m})

\* GET /nginx/proxy-hosts
RemoteList(rem) == ListOf(rem, DOMAIN rem)

\* POST /nginx/proxy-hosts: 201 with the new record, or a refusal
RemoteAccepts(rem, nid, host_data, oc) ==
    oc = "ok" /\ ~DomainTaken(rem, host_data.domain_names[1])

RemoteCreate(rem, nid, host_data) ==
    Put(rem, nid, [id |-> nid,
                   domain_names |-> host_data.domain_names,
                   forward_host |-> host_data.forward_host,
                   forward_port |-> host_data.forward_port,
                   meta |-> host_data.meta,
                   enabled |-> host_data.enabled])

\* PUT /nginx/proxy-hosts/{id}: 200 and the fields of the body replaced, or a refusal
RemoteApplies(rem, host_id, oc) == oc = "ok" /\ host_id \in DOMAIN rem

RemoteUpdate(rem, host_id, host_data) ==
    [rem EXCEPT ![host_id] = Merge(@, host_data)]

\* ---------------------------------------------------------------- API client
\* What the service sees of NPMApiClient. oc is the fate of the logical request
\* ("ok": the proxy manager answers it; "fail": an error status or no response).

\* create_proxy_host: the numeric id of the created host on 201, None otherwise
create_proxy_host(rem, nid, host_data, oc) ==
    IF RemoteAccepts(rem, nid, host_data, oc)
    THEN [ret |-> [type |-> "int", value |-> nid],
          remote |-> RemoteCreate(rem, nid, host_data), nextId |-> nid + 1]
    ELSE [ret |-> [type |-> "NoneType", value |-> 0], remote |-> rem, nextId |-> nid]

\* update_proxy_host: True on 200, False otherwise
update_proxy_host(rem, host_id, host_data, oc) ==
    IF RemoteApplies(rem, host_id, oc)
    THEN [ret |-> TRUE, remote |-> RemoteUpdate(rem, host_id, host_data)]
    ELSE [ret |-> FALSE, remote |-> rem]

\* get_proxy_hosts: the list on 200, [] otherwise
get_proxy_hosts(rem, oc) == IF oc = "ok" THEN RemoteList(rem) ELSE <<>>

\* Python truth value of what create_proxy_host returned
Truthy(v) == v.type # "NoneType" /\ v.value # 0

\* ------------------------------------------------------------------ service
\* The handlers are functions of a working state
\*   s = [hosts, ids, remote, nextId, calls, raised, warned]
\* where calls is the log of API calls issued so far by the running handler.
\*   op      "list" | "create" | "update"
\*   id      the host the call is addressed to (update), else 0
\*   tag     managed_by of that host in the proxy manager when the call is made
\*           ("-" if there is no such host)
\*   cid     the container being reconciled, domain its domain (0 for "list")
\*   data    the body sent
\*   ok      whether the client reported success, newid the id it returned (create)
Call(op, host_id, tag, cid, domain, data, ok, newid) ==
    [op |-> op, id |-> host_id, tag |-> tag, cid |-> cid, domain |-> domain,
     data |-> data, ok |-> ok, newid |-> newid]

RemoteTag(rem, host_id) ==
    IF host_id \in DOMAIN rem THEN parse_meta(rem[host_id].meta).managed_by ELSE "-"

\* (variant: the ownership test left out)
is_managed_always(ids, host_id) == TRUE

\* host_id in self.managed_host_ids
is_managed(ids, host_id) == host_id \in ids

\* (variant: the container id of the meta not compared)
names_container_any(host, container_id) == TRUE

\* meta.get("container_id") == container_id
names_container(host, container_id) == parse_meta(host.meta).container_id = container_id

\* _load_npm_hosts, the loop over the listed hosts. meta.get exists for a dict
\* only: on anything else it raises AttributeError, after the host was cached.
RECURSIVE cache_hosts(_, _, _)
cache_hosts(hosts, by_domain, ids) ==
    IF hosts = <<>> THEN [hosts |-> by_domain, ids |-> ids, raised |-> FALSE]
    ELSE LET host == Head(hosts)
             host_id == host.id
             domain == first_domain(host)
             meta == parse_meta(host.meta)
         IN IF host_id # 0 /\ domain # 0
            THEN IF meta.type # "dict"
                 THEN [hosts |-> Put(by_domain, domain, host), ids |-> ids, raised |-> TRUE]
                 ELSE cache_hosts(Tail(hosts), Put(by_domain, domain, host),
                                  IF meta.managed_by = ManagedTag
                                  THEN ids \cup {host_id} ELSE ids)
            ELSE cache_hosts(Tail(hosts), by_domain, ids)

\* (variant: managed_host_ids not reset)
load_npm_hosts_keep_ids(s, oc) ==
    LET hosts == get_proxy_hosts(s.remote, oc)
        c == cache_hosts(hosts, EmptyMap, s.ids)
    IN [s EXCEPT !.hosts = c.hosts, !.ids = c.ids, !.raised = c.raised,
                 !.calls = Append(@, Call("list", 0, "-", 0, 0, EmptyMap, oc = "ok", 0))]

\* _load_npm_hosts
load_npm_hosts(s, oc) ==
    LET hosts == get_proxy_hosts(s.remote, oc)
        c == cache_hosts(hosts, EmptyMap, {})
    IN [s EXCEPT !.hosts = c.hosts, !.ids = c.ids, !.raised = c.raised,
                 !.calls = Append(@, Call("list", 0, "-", 0, 0, EmptyMap, oc = "ok", 0))]

\* (variant: the cached record is patched whatever update_proxy_host returned)
start_existing_patch_always(s, domain, port, ip_address, container_id, oc) ==
    LET existing_host == s.hosts[domain]
        host_id == existing_host.id
        host_data == prepare_host_data(domain, ip_address, port, container_id)
        r == update_proxy_host(s.remote, host_id, host_data, oc)
    IN IF is_managed(s.ids, host_id)
       THEN [s EXCEPT !.remote = r.remote,
                      !.calls = Append(@, Call("update", host_id, RemoteTag(s.remote, host_id),
                                               container_id, domain, host_data, r.ret, 0)),
                      !.hosts = Put(@, domain, Merge(existing_host, host_data))]
       ELSE [s EXCEPT !.warned = TRUE]

\* on_container_start, the branch of a domain found in the cache
start_existing(s, domain, port, ip_address, container_id, oc) ==
    LET existing_host == s.hosts[domain]
        host_id == existing_host.id
        host_data == prepare_host_data(domain, ip_address, port, container_id)
        r == update_proxy_host(s.remote, host_id, host_data, oc)
    IN IF is_managed(s.ids, host_id)
       THEN [s EXCEPT !.remote = r.remote,
                      !.calls = Append(@, Call("update", host_id, RemoteTag(s.remote, host_id),
                                               container_id, domain, host_data, r.ret, 0)),
                      !.hosts = IF r.ret THEN Put(@, domain, Merge(existing_host, host_data))
                                ELSE @]
       ELSE [s EXCEPT !.warned = TRUE]

\* on_container_start, the branch of a domain not in the cache. created_host is
\* what create_proxy_host returned; created_host.get("id") exists for a dict only.
start_new(s, domain, port, ip_address, container_id, oc) ==
    LET host_data == prepare_host_data(domain, ip_address, port, container_id)
        r == create_proxy_host(s.remote, s.nextId, host_data, oc)
        created_host == r.ret
        t == [s EXCEPT !.remote = r.remote, !.nextId = r.nextId,
                       !.calls = Append(@, Call("create", 0, "-", container_id, domain,
                                                host_data, Truthy(created_host),
                                                created_host.value))]
    IN IF Truthy(created_host)
       THEN IF created_host.type = "dict"
            THEN [t EXCEPT !.hosts = Put(@, domain, created_host.value),
                           !.ids = @ \cup {created_host.value.id}]
            ELSE [t EXCEPT !.raised = TRUE]
       ELSE t

\* (variant: a container without an IP is reconciled all the same)
on_container_start_any_ip(s, container_info, oc) ==
    IF ~container_info.has_npm_config THEN s
    ELSE LET npm_config == container_info.npm_config
             container_id == container_info.id
             domain == npm_config.host
             port == npm_config.port
             ip_address == get_container_ip(container_info)
         IN IF domain \in DOMAIN s.hosts
            THEN start_existing(s, domain, port, ip_address, container_id, oc)
            ELSE start_new(s, domain, port, ip_address, container_id, oc)

\* on_container_start
on_container_start(s, container_info, oc) ==
    IF ~container_info.has_npm_config THEN s
    ELSE LET npm_config == container_info.npm_config
             container_id == container_info.id
             domain == npm_config.host
             port == npm_config.port
             ip_address == get_container_ip(container_info)
         IN IF ip_address = 0 THEN s
            ELSE IF domain \in DOMAIN s.hosts
            THEN start_existing(s, domain, port, ip_address, container_id, oc)
            ELSE start_new(s, domain, port, ip_address, container_id, oc)

\* (variant: the body also resets the forward target)
DisableData_with_target == [enabled |-> FALSE, forward_host |-> 0]

\* on_container_stop: every cached owned host whose meta names the container is
\* disabled with the payload {enabled: False}
DisableData == [enabled |-> FALSE]

RECURSIVE stop_hosts(_, _, _, _)
stop_hosts(s, domains, container_id, ocs) ==
    IF domains = {} THEN s
    ELSE LET domain == CHOOSE x \in domains : \A y \in domains : x <= y
             host == s.hosts[domain]
             host_id == host.id
             r == update_proxy_host(s.remote, host_id, DisableData, ocs[domain])
             t == IF is_managed(s.ids, host_id) /\ names_container(host, container_id)
                  THEN [s EXCEPT !.remote = r.remote,
                                 !.calls = Append(@, Call("update", host_id,
                                                          RemoteTag(s.remote, host_id),
                                                          container_id, domain,
                                                          DisableData, r.ret, 0)),
                                 !.hosts = IF r.ret THEN Put(@, domain, Merge(host, DisableData))
                                           ELSE @]
                  ELSE s
         IN stop_hosts(t, domains \ {domain}, container_id, ocs)

\* (variant: the loop over the cache is left after the first host found)
on_container_stop_first_only(s, container_id, ocs) ==
    LET named == {d \in DOMAIN s.hosts :
                     is_managed(s.ids, s.hosts[d].id) /\ names_container(s.hosts[d], container_id)}
    IN IF named = {} THEN s
       ELSE stop_hosts(s, {CHOOSE x \in named : \A y \in named : x <= y}, container_id, ocs)

\* on_container_stop: the loop over a copy of the cache's items
on_container_stop(s, container_id, ocs) ==
    stop_hosts(s, DOMAIN s.hosts, container_id, ocs)

\* scan_running_containers: the running containers that carry an npm_config
ScannedIds == {c \in CIDs : containers[c].running /\ has_npm_config(env[c])}

RECURSIVE start_each(_, _, _)
start_each(s, cids, ocs) ==
    IF cids = {} \/ s.raised THEN s
    ELSE LET c == CHOOSE x \in cids : \A y \in cids : x <= y
         IN start_each(on_container_start(s, get_container_info(c), ocs[c]),
                       cids \ {c}, ocs)

\* _sync_all
sync_all(s, listOc, ocs) ==
    start_each(load_npm_hosts(s, listOc), ScannedIds, ocs)

\* ------------------------------------------------------------ initial states
\* A container that existed in an earlier life of the host list and is gone
GoneCID == MaxContainer + 1

NotProxyEnabled == [NPM_HOST |-> 1, NPM_PORT |-> 0]

\* Container 1 declares domain 1 (the domains are interchangeable); the others
\* declare any domain or are not proxy-enabled.
EnvChoices(c) ==
    IF c = 1 THEN {[NPM_HOST |-> 1, NPM_PORT |-> 8000 + c]}
    ELSE {[NPM_HOST |-> d, NPM_PORT |-> 8000 + c] : d \in Domains} \cup {NotProxyEnabled}

Outcomes == {"ok", "fail"}

ManualMeta == [form |-> "dict", managed_by |-> "", container_id |-> 0]

\* What the host list holds for one domain when the service is constructed:
\* nothing, a manually created host, or a host an earlier run of the service
\* created for a container declaring that domain.
HostKinds(e, d) ==
    {[kind |-> "absent", owner |-> 0, enabled |-> TRUE],
     [kind |-> "manual", owner |-> 0, enabled |-> TRUE]}
    \cup {[kind |-> "owned", owner |-> c, enabled |-> TRUE] :
            c \in {x \in CIDs : e[x].NPM_HOST = d /\ has_npm_config(e[x])} \cup {GoneCID}}

InitHost(hid, d, k) ==
    [id |-> hid,
     domain_names |-> <<d>>,
     forward_host |-> 1,
     forward_port |-> 8000 + k.owner,
     meta |-> IF k.kind = "owned"
              THEN [form |-> "dict", managed_by |-> ManagedTag, container_id |-> k.owner]
              ELSE ManualMeta,
     enabled |-> k.enabled]

\* ids are handed out in the order of the domains
InitRemote(kinds) ==
    LET present == {d \in Domains : kinds[d].kind # "absent"}
        idOf(d) == Cardinality({x \in present : x <= d})
    IN [hid \in 1..Cardinality(present) |->
          LET d == CHOOSE x \in present : idOf(x) = hid
          IN InitHost(hid, d, kinds[d])]

NoOp == [op |-> "none", cid |-> 0, dispatched |-> FALSE, login |-> "-", calls |-> <<>>,
         raised |-> FALSE, warned |-> FALSE, prev_ids |-> {}, run |-> 0]

ReqIdle == [pc |-> "unused"]

ProcIdle == [scheduler |-> "unused"]

ProbeIdle == [fn |-> "unused"]

Init ==
    /\ current_npm_hosts = EmptyMap
    /\ managed_host_ids = {}
    /\ active_containers = {}
    /\ phase = "init"
    /\ sched = "off"
    /\ env \in {e \in [CIDs -> UNION {EnvChoices(c) : c \in CIDs}] :
                  \A c \in CIDs : e[c] \in EnvChoices(c)}
    /\ \E kinds \in [Domains -> UNION {HostKinds(env, d) : d \in Domains}] :
          /\ \A d \in Domains : kinds[d] \in HostKinds(env, d)
          /\ remote = InitRemote(kinds)
          /\ nextId = Cardinality(DOMAIN remote) + 1
    /\ containers \in [CIDs -> {[running |-> FALSE, ip |-> 0], [running |-> TRUE, ip |-> 1]}]
    /\ \A c \in CIDs : containers[c].running => c = 1
    /\ edits = 0
    /\ last = NoOp
    /\ req = ReqIdle
    /\ proc = ProcIdle
    /\ probe = ProbeIdle

\* ------------------------------------------------------------------ actions
Work == [hosts |-> current_npm_hosts, ids |-> managed_host_ids, remote |-> remote,
         nextId |-> nextId, calls |-> <<>>, raised |-> FALSE, warned |-> FALSE]

\* the proxy manager hands out ids up to MaxHostId
Commit(s) ==
    /\ s.nextId <= MaxHostId + 1
    /\ current_npm_hosts' = s.hosts
    /\ managed_host_ids' = s.ids
    /\ remote' = s.remote
    /\ nextId' = s.nextId

Observed(op, c, s, run) ==
    [op |-> op, cid |-> c, dispatched |-> TRUE, login |-> "-", calls |-> s.calls,
     raised |-> s.raised, warned |-> s.warned, prev_ids |-> {}, run |-> run]

\* (variant: what login() returned is not looked at)
ServiceStart_ignores_login(loginOk, oc1) ==
    /\ phase = "init"
    /\ LET s == load_npm_hosts(Work, oc1)
       IN /\ Commit(s)
          /\ phase' = "starting"
          /\ sched' = "running"
          /\ last' = [Observed("service_start", 0, s, 0)
                        EXCEPT !.login = IF loginOk THEN "ok" ELSE "failed"]
    /\ UNCHANGED <<active_containers, env, containers, edits, req, proc, probe>>

\* EnvoyService.start, first part: login, _load_npm_hosts, and the periodic job is
\* registered with the scheduler, whose thread main has already started. A
\* failed login returns False and main returns 1; so does an exception of
\* _load_npm_hosts, which leaves start() before the job is registered.
ServiceStart(loginOk, oc1) ==
    /\ phase = "init"
    /\ IF ~loginOk
       THEN /\ phase' = "exited"
            /\ last' = [Observed("service_start", 0, Work, 0) EXCEPT !.login = "failed"]
            /\ UNCHANGED <<current_npm_hosts, managed_host_ids, remote, nextId, sched>>
       ELSE LET s == load_npm_hosts(Work, oc1)
            IN /\ Commit(s)
               /\ phase' = IF s.raised THEN "exited" ELSE "starting"
               /\ sched' = IF s.raised THEN "off" ELSE "running"
               /\ last' = [Observed("service_start", 0, s, 0) EXCEPT !.login = "ok"]
    /\ UNCHANGED <<active_containers, env, containers, edits, req, proc, probe>>

\* EnvoyService.start, second part: the initial _sync_all, then the event loop is
\* entered. An exception of the initial sync leaves start() and main returns 1.
InitialSync(listOc, ocs) ==
    /\ phase = "starting"
    /\ LET s == sync_all(Work, listOc, ocs)
       IN /\ Commit(s)
          /\ active_containers' = active_containers \cup ScannedIds
          /\ phase' = IF s.raised THEN "exited" ELSE "streaming"
          /\ sched' = IF s.raised THEN "off" ELSE sched
          /\ last' = Observed("initial_sync", 0, s, 0)
    /\ UNCHANGED <<env, containers, edits, req, proc, probe>>

\* start_monitoring, a start event of container c: the container is inspected,
\* recorded as active and reconciled. An exception ends the event loop: start()
\* returns False and main exits.
HandleStart(c, oc) ==
    /\ phase = "streaming"
    /\ LET container_info == get_container_info(c)
           s == on_container_start(Work, container_info, oc)
       IN /\ Commit(s)
          /\ active_containers' = IF container_info.has_npm_config
                                  THEN active_containers \cup {c} ELSE active_containers
          /\ phase' = IF s.raised THEN "exited" ELSE phase
          /\ sched' = IF s.raised THEN "off" ELSE sched
          /\ last' = Observed("start", c, s, 0)
    /\ UNCHANGED <<env, containers, edits, req, proc, probe>>

\* start_monitoring, a stop or die event of container c
HandleStop(c, ocs) ==
    /\ phase = "streaming"
    /\ LET s == IF c \in active_containers THEN on_container_stop(Work, c, ocs) ELSE Work
       IN /\ Commit(s)
          /\ active_containers' = active_containers \ {c}
          /\ last' = [Observed("stop", c, s, 0) EXCEPT !.dispatched = c \in active_containers]
    /\ UNCHANGED <<phase, sched, env, containers, edits, req, proc, probe>>

\* every request of the pass was answered
Clean(s) == \A i \in 1..Len(s.calls) : s.calls[i].ok

NextRun(s) == IF ~Clean(s) THEN 0 ELSE IF last.op = "sync" /\ last.run >= 1 THEN 2 ELSE 1

\* run_scheduler: the periodic job runs _sync_all. An exception leaves
\* schedule.run_pending and ends the scheduler thread.
ScheduledSync(listOc, ocs) ==
    /\ phase \in {"starting", "streaming"}
    /\ sched = "running"
    /\ LET s == sync_all(Work, listOc, ocs)
       IN /\ Commit(s)
          /\ active_containers' = active_containers \cup ScannedIds
          /\ sched' = IF s.raised THEN "dead" ELSE sched
          /\ last' = Observed("sync", 0, s, 0)
    /\ UNCHANGED <<phase, env, containers, edits, req, proc, probe>>

\* ---- the world
DockerRun(c, ip) ==
    /\ phase = "streaming"
    /\ ~containers[c].running
    /\ containers' = [containers EXCEPT ![c] = [running |-> TRUE, ip |-> ip]]
    /\ last' = [NoOp EXCEPT !.op = "world"]
    /\ UNCHANGED <<current_npm_hosts, managed_host_ids, active_containers, phase, sched,
                   remote, nextId, env, edits, req, proc, probe>>

DockerStop(c) ==
    /\ phase = "streaming"
    /\ containers[c].running
    /\ containers' = [containers EXCEPT ![c] = [running |-> FALSE, ip |-> 0]]
    /\ last' = [NoOp EXCEPT !.op = "world"]
    /\ UNCHANGED <<current_npm_hosts, managed_host_ids, active_containers, phase, sched,
                   remote, nextId, env, edits, req, proc, probe>>

\* an operator creates a host by hand for a free domain
OperatorCreates(d) ==
    /\ phase = "streaming"
    /\ edits < MaxEdits
    /\ edits' = edits + 1
    /\ nextId \in HostIds
    /\ ~DomainTaken(remote, d)
    /\ remote' = Put(remote, nextId, InitHost(nextId, d, [kind |-> "manual", owner |-> 0,
                                                         enabled |-> TRUE]))
    /\ nextId' = nextId + 1
    /\ last' = [NoOp EXCEPT !.op = "world"]
    /\ UNCHANGED <<current_npm_hosts, managed_host_ids, active_containers, phase, sched,
                   env, containers, req, proc, probe>>

\* an operator deletes a host
OperatorDeletes(h) ==
    /\ phase = "streaming"
    /\ edits < MaxEdits
    /\ edits' = edits + 1
    /\ h \in DOMAIN remote
    /\ remote' = [x \in (DOMAIN remote) \ {h} |-> remote[x]]
    /\ last' = [NoOp EXCEPT !.op = "world"]
    /\ UNCHANGED <<current_npm_hosts, managed_host_ids, active_containers, phase, sched,
                   nextId, env, containers, req, proc, probe>>

Next ==
    \/ \E loginOk \in BOOLEAN, oc1 \in Outcomes : ServiceStart(loginOk, oc1)
    \/ \E listOc \in Outcomes, ocs \in [CIDs -> Outcomes] : InitialSync(listOc, ocs)
    \/ \E c \in CIDs, oc \in Outcomes : HandleStart(c, oc)
    \/ \E c \in CIDs, ocs \in [Domains -> Outcomes] : HandleStop(c, ocs)
    \/ \E listOc \in Outcomes, ocs \in [CIDs -> Outcomes] : ScheduledSync(listOc, ocs)
    \/ \E c \in CIDs, ip \in IPs : DockerRun(c, ip)
    \/ \E c \in CIDs : DockerStop(c)
    \/ \E d \in Domains : OperatorCreates(d)
    \/ \E h \in HostIds : OperatorDeletes(h)

Spec == Init /\ [][Next]_vars

\* ------------------------------------------------ a caller of _sync_all alone
\* _sync_all run by a caller that goes on after an exception (as the tests and the
\* periodic job call it), with nothing else changing in between. last.run counts
\* the consecutive passes in which every request was answered, last.prev_ids is
\* owned-ids as the pass before left it.
DirectSync(listOc, ocs) ==
    /\ last.run < 2
    /\ LET s == sync_all(Work, listOc, ocs)
       IN /\ Commit(s)
          /\ active_containers' = active_containers \cup ScannedIds
          /\ last' = [Observed("sync", 0, s, NextRun(s)) EXCEPT !.prev_ids = managed_host_ids]
    /\ UNCHANGED <<phase, sched, env, containers, edits, req, proc, probe>>

NextSync == \E listOc \in Outcomes, ocs \in [CIDs -> Outcomes] : DirectSync(listOc, ocs)

SpecSync == Init /\ [][NextSync]_vars

\* ------------------------------------------- NPMApiClient._make_request
\* req = [pc, N, B, kind, stack, calls, sleeps, reauths, logins, login_results,
\*        token_calls, result, token, bearer, login_log]
\*   N, B     max_retries and retry_delay of the client
\*   kind     the logical request: "create" | "update" | "list" | "login"
\*   stack    the _make_request activations: the logical request at the bottom,
\*            above it the requests of login() calls made on a 401 (login()
\*            itself goes through _make_request); each [attempt]
\*   calls    the HTTP calls of the logical request: [attempt, o, bearer]
\*   token    self.token (0: None), bearer: the Authorization header of the session
\*   login_log  one entry per finished login(): the response it got from
\*            _make_request, what it returned, self.token and the header after
\*            it, and the number of calls of the logical request made so far
\*   sleeps   the waits of the logical request between its attempts
\*   reauths  login() calls made by the logical request's own loop
\*   logins   all login() calls, those made inside login() included
\*   result   what _make_request returns to the caller of the logical request
Statuses == {200, 201, 400, 401, 500}

Response(st) == [kind |-> "response", status |-> st, token |-> TRUE]

NoResponse == [kind |-> "none", status |-> 0, token |-> FALSE]

\* What one session.request call can meet: a response with a status, or a
\* RequestException with or without a response attached. The token endpoint may
\* also answer 200 with no token in the body.
Exchanges(inner) ==
    {Response(st) : st \in Statuses}
    \cup {[kind |-> "fault", status |-> st, token |-> FALSE] : st \in {0, 500}}
    \cup (IF inner THEN {[kind |-> "response", status |-> 200, token |-> FALSE]} ELSE {})

RECURSIVE Pow2(_)
Pow2(n) == IF n = 0 THEN 1 ELSE 2 * Pow2(n - 1)

\* (variant: retry_delay * 2 * attempt)
wait_time_linear(retry_delay, attempt) == retry_delay * 2 * attempt

\* the wait before the next attempt, retry_delay * (2 ** attempt)
wait_time(retry_delay, attempt) == retry_delay * Pow2(attempt)

\* (variant: the token of the body not looked at)
login_ok_status_only(resp) == resp.kind = "response" /\ resp.status = 200

\* login(): true iff the token request returned a response with status 200 and a token
login_ok(resp) == resp.kind = "response" /\ resp.status = 200 /\ resp.token

\* (variant: every error status from 401 on is answered by login())
wants_reauth_any_error(o, attempt, max_retries) ==
    o.status >= 401 /\ attempt < max_retries - 1

\* create_proxy_host on what _make_request returned: the id of the created host
\* on 201, None for any other status and for None
create_returns(resp) ==
    IF resp.kind = "response" /\ resp.status = 201 THEN "id" ELSE "None"

\* a 401 is answered by login() as long as attempts remain
wants_reauth(o, attempt, max_retries) == o.status = 401 /\ attempt < max_retries - 1

\* (variant: the request is repeated within the same attempt)
next_attempt_same(attempt) == attempt

\* continue: the for loop goes on with its next attempt
next_attempt(attempt) == attempt + 1

\* the last attempt of the retry loop
last_attempt(attempt, max_retries) == attempt = max_retries - 1

\* what the loop returns when the last attempt raised
fault_result(o) == IF o.status # 0 THEN Response(o.status) ELSE NoResponse

\* the token of the response just received: the tokens issued are all different
token_of(r, resp) == IF resp.token THEN Len(r.calls) + r.token_calls ELSE 0

\* login() on the response resp of its token request: on 200 self.token is set
\* from the body; if it is a token the session header is set and login() is true.
\* Any exception is caught and gives false.
login_returns(r, resp) ==
    LET ok == login_ok(resp)
        tok == IF resp.kind = "response" /\ resp.status = 200 THEN token_of(r, resp)
               ELSE r.token
        hdr == IF ok THEN tok ELSE r.bearer
    IN [r EXCEPT !.token = tok, !.bearer = hdr,
                 !.login_log = Append(@, [resp |-> resp, ok |-> ok, token |-> tok,
                                          bearer |-> hdr, at |-> Len(r.calls)])]

\* (variant: the loop goes on whatever login() returned)
after_login_always_continue(ok) == "continue"

\* if self.login(): continue / else: return response
after_login(ok) == IF ok THEN "continue" ELSE "return"

\* The activation on top of the stack returns resp. At the bottom that is the
\* result of the logical request. Above it, it is the result of a login() request:
\* if login() is true the activation below goes on with its next attempt
\* (continue), otherwise it returns its 401 response.
RECURSIVE Return(_, _)
Return(r, resp) ==
    IF Len(r.stack) = 1
    THEN LET d == [r EXCEPT !.pc = "done", !.result = resp, !.stack = <<>>]
         IN IF r.kind = "login" THEN login_returns(d, resp) ELSE d
    ELSE LET rest == SubSeq(r.stack, 1, Len(r.stack) - 1)
             ok == login_ok(resp)
             r1 == login_returns(
                     [r EXCEPT !.stack = rest,
                               !.login_results = IF Len(rest) = 1 THEN Append(@, ok) ELSE @],
                     resp)
         IN IF after_login(ok) = "continue"
            THEN [r1 EXCEPT !.stack[Len(rest)].attempt = next_attempt(@)]
            ELSE Return(r1, Response(401))

\* one iteration of the retry loop of the activation on top of the stack, whose
\* session.request meets o
make_request_step(r, o) ==
    LET depth == Len(r.stack)
        outer == depth = 1
        attempt == r.stack[depth].attempt
        r0 == IF outer THEN [r EXCEPT !.calls = Append(@, [attempt |-> attempt, o |-> o,
                                                            bearer |-> r.bearer])]
              ELSE [r EXCEPT !.token_calls = @ + 1]
        called == [r0 EXCEPT !.logins = @ + 1, !.reauths = IF outer THEN @ + 1 ELSE @]
    IN IF o.kind = "response"
       THEN IF wants_reauth(o, attempt, r.N)
            THEN IF depth >= MaxDepth
                 \* the interpreter's recursion limit: login() catches the
                 \* RecursionError and returns False
                 THEN Return([called EXCEPT !.stack = Append(@, [attempt |-> 0])],
                             NoResponse)
                 ELSE [called EXCEPT !.stack = Append(@, [attempt |-> 0])]
            ELSE Return(r0, o)
       ELSE IF last_attempt(attempt, r.N)
            THEN Return(r0, fault_result(o))
            ELSE [r0 EXCEPT !.sleeps = IF outer THEN Append(@, wait_time(r.B, attempt)) ELSE @,
                            !.stack[depth].attempt = @ + 1]

ReqInit(n, b) ==
    [pc |-> "idle", N |-> n, B |-> b, kind |-> "", stack |-> <<>>, calls |-> <<>>,
     sleeps |-> <<>>, reauths |-> 0, logins |-> 0, login_results |-> <<>>,
     token_calls |-> 0, result |-> NoResponse, token |-> 0, bearer |-> 0,
     login_log |-> <<>>]

InitReq ==
    /\ current_npm_hosts = EmptyMap
    /\ managed_host_ids = {}
    /\ active_containers = {}
    /\ phase = "init"
    /\ sched = "off"
    /\ remote = EmptyMap
    /\ nextId = 1
    /\ env = [c \in CIDs |-> NotProxyEnabled]
    /\ containers = [c \in CIDs |-> [running |-> FALSE, ip |-> 0]]
    /\ edits = 0
    /\ last = NoOp
    /\ \E n \in 0..MaxRetries, b \in 1..MaxDelay : req = ReqInit(n, b)
    /\ proc = ProcIdle
    /\ probe = ProbeIdle

\* a logical request enters _make_request; with max_retries = 0 the loop has no
\* iteration and None is returned
Begin(kind) ==
    /\ req.pc = "idle"
    /\ req' = IF req.N = 0
              THEN LET d == [req EXCEPT !.pc = "done", !.kind = kind]
                   IN IF kind = "login" THEN login_returns(d, NoResponse) ELSE d
              ELSE [req EXCEPT !.pc = "running", !.kind = kind, !.stack = <<[attempt |-> 0]>>]
    /\ UNCHANGED svcVars

\* one session.request and what the loop does with it
Exchange(o) ==
    /\ req.pc = "running"
    /\ o \in Exchanges(Len(req.stack) > 1 \/ req.kind = "login")
    /\ req' = make_request_step(req, o)
    /\ UNCHANGED svcVars

NextReq ==
    \/ \E kind \in {"create", "update", "list", "login"} : Begin(kind)
    \/ \E o \in Exchanges(TRUE) : Exchange(o)

SpecReq == InitReq /\ [][NextReq]_vars

\* ------------------------------------------------------- the start path alone
\* As Init, with any container running or not, and a running container with or
\* without an address (a container on the host's network reports an empty
\* IPAddress).
InitStart ==
    /\ current_npm_hosts = EmptyMap
    /\ managed_host_ids = {}
    /\ active_containers = {}
    /\ phase = "init"
    /\ sched = "off"
    /\ env \in {e \in [CIDs -> UNION {EnvChoices(c) : c \in CIDs}] :
                  \A c \in CIDs : e[c] \in EnvChoices(c)}
    /\ \E kinds \in [Domains -> UNION {HostKinds(env, d) : d \in Domains}] :
          /\ \A d \in Domains : kinds[d] \in HostKinds(env, d)
          /\ remote = InitRemote(kinds)
          /\ nextId = Cardinality(DOMAIN remote) + 1
    /\ containers \in [CIDs -> {[running |-> FALSE, ip |-> 0], [running |-> TRUE, ip |-> 0],
                                [running |-> TRUE, ip |-> 1]}]
    /\ edits = 0
    /\ last = NoOp
    /\ req = ReqIdle
    /\ proc = ProcIdle
    /\ probe = ProbeIdle

NextStart ==
    \/ \E loginOk \in BOOLEAN, oc1 \in Outcomes : ServiceStart(loginOk, oc1)
    \/ \E listOc \in Outcomes, ocs \in [CIDs -> Outcomes] : InitialSync(listOc, ocs)
    \/ \E c \in CIDs, oc \in Outcomes : HandleStart(c, oc)
    \/ \E listOc \in Outcomes, ocs \in [CIDs -> Outcomes] : ScheduledSync(listOc, ocs)

SpecStart == InitStart /\ [][NextStart]_vars

\* ------------------------------------------------- helpers called on their own
\* The service takes no step while a helper is applied to an argument.
Unstarted ==
    /\ current_npm_hosts = EmptyMap
    /\ managed_host_ids = {}
    /\ active_containers = {}
    /\ phase = "init"
    /\ sched = "off"
    /\ remote = EmptyMap
    /\ nextId = 1
    /\ env = [c \in CIDs |-> NotProxyEnabled]
    /\ containers = [c \in CIDs |-> [running |-> FALSE, ip |-> 0]]
    /\ edits = 0
    /\ last = NoOp
    /\ req = ReqIdle
    /\ proc = ProcIdle

\* ---- the boolean flags: _extract_npm_env, then _prepare_host_data
\* A variable of the container's environment is a text, or Unset
Unset == "<unset>"

EnvTexts == {"true", "True", "TRUE", "false", "yes", "1", ""}

FlagVars == {"NPM_SSL", "NPM_ENABLE_WS", "NPM_ENABLE_HSTS"}

\* str.lower()
Lower(text) == IF text \in {"true", "True", "TRUE"} THEN "true"
               ELSE IF text \in {"false", "False"} THEN "false"
               ELSE text

\* str() of a bool
Str(b) == IF b THEN "True" ELSE "False"

\* dict.get(key, default)
Get(dict, key, default) ==
    IF key \in DOMAIN dict /\ dict[key] # Unset THEN dict[key] ELSE default

\* _extract_npm_env, the keys it derives from the optional flag variables
extract_npm_flags(env_dict) ==
    [ssl |-> Lower(Get(env_dict, "NPM_SSL", "false")) = "true",
     enable_ws |-> Lower(Get(env_dict, "NPM_ENABLE_WS", "false")) = "true",
     enable_hsts |-> Lower(Get(env_dict, "NPM_ENABLE_HSTS", "false")) = "true"]

\* _prepare_host_data, the boolean fields of the record it builds from npm_config
prepare_host_flags(npm_config) ==
    [ssl_forced |-> Lower(Str(Get(npm_config, "ssl_forced", FALSE))) = "true",
     hsts_enabled |-> Lower(Str(Get(npm_config, "hsts_enabled", FALSE))) = "true",
     block_exploits |-> Lower(Str(Get(npm_config, "block_exploits", TRUE))) = "true",
     allow_websocket_upgrade |->
         Lower(Str(Get(npm_config, "allow_websocket_upgrade", FALSE))) = "true"]

InitFlags ==
    /\ Unstarted
    /\ \E env_dict \in [FlagVars -> EnvTexts \cup {Unset}] :
          probe = [fn |-> "_extract_npm_env", args |-> env_dict, ret |-> EmptyMap]

\* get_container_info builds npm_config from the environment
ExtractFlags ==
    /\ probe.fn = "_extract_npm_env"
    /\ probe' = [fn |-> "_prepare_host_data", args |-> probe.args,
                 ret |-> extract_npm_flags(probe.args)]
    /\ UNCHANGED <<svcVarsOnly, req, proc>>

\* on_container_start passes npm_config to _prepare_host_data and sends the record
PrepareFlags ==
    /\ probe.fn = "_prepare_host_data"
    /\ probe' = [fn |-> "sent", args |-> probe.args, ret |-> prepare_host_flags(probe.ret)]
    /\ UNCHANGED <<svcVarsOnly, req, proc>>

NextFlags == ExtractFlags \/ PrepareFlags

SpecFlags == InitFlags /\ [][NextFlags]_vars

\* ---- _get_container_ip
NetworkNames == {"bridge", "proxy", "backend"}

Network(name, ip) == [name |-> name, ip_address |-> ip]

\* the networks of a container in the order Docker reports them, each name once
NetworkLists ==
    {nets \in UNION {[1..n -> {Network(name, ip) : name \in NetworkNames, ip \in 0..MaxIp}] :
                       n \in 0..MaxNetworks} :
        \A i, j \in DOMAIN nets : i # j => nets[i].name # nets[j].name}

InitIp ==
    /\ Unstarted
    /\ \E nets \in NetworkLists, preferred \in NetworkNames \cup {""} :
          probe = [fn |-> "_get_container_ip",
                   args |-> [id |-> 1, has_npm_config |-> TRUE,
                             npm_config |-> [host |-> 1, port |-> 8001, network |-> preferred],
                             networks |-> nets],
                   ret |-> 0]

CallGetContainerIp ==
    /\ probe.fn = "_get_container_ip"
    /\ probe' = [probe EXCEPT !.fn = "returned", !.ret = get_container_ip(probe.args)]
    /\ UNCHANGED <<svcVarsOnly, req, proc>>

NextIp == CallGetContainerIp

SpecIp == InitIp /\ [][NextIp]_vars

\* ---- _prepare_host_data, the certificate_id field
\* A value of npm_config is a Python str (a sequence of characters) or int.
CertChars == {"n", "e", "w", "N", "0", "1", "-", " "}

CertInts == {0, 1, 12}

PyStr(text) == [type |-> "str", text |-> text, value |-> 0]

PyInt(n) == [type |-> "int", text |-> <<>>, value |-> n]

CertTexts == UNION {[1..n -> CertChars] : n \in 0..MaxText}

\* npm_config with or without the key certificate_id
CertConfigs ==
    {EmptyMap}
    \cup {[k \in {"certificate_id"} |-> v] :
            v \in {PyStr(t) : t \in CertTexts} \cup {PyInt(n) : n \in CertInts}}

\* str.lower(), character by character
LowerText(text) == [i \in 1..Len(text) |-> IF text[i] = "N" THEN "n" ELSE text[i]]

RECURSIVE LStrip(_)
LStrip(text) ==
    IF text # <<>> /\ Head(text) = " " THEN LStrip(Tail(text)) ELSE text

RECURSIVE RStrip(_)
RStrip(text) ==
    IF text # <<>> /\ text[Len(text)] = " " THEN RStrip(SubSeq(text, 1, Len(text) - 1))
    ELSE text

DigitValue(ch) == IF ch = "1" THEN 1 ELSE 0

RECURSIVE DecimalValue(_)
DecimalValue(digits) ==
    IF digits = <<>> THEN 0
    ELSE 10 * DecimalValue(SubSeq(digits, 1, Len(digits) - 1)) + DigitValue(digits[Len(digits)])

\* int(x): an int is returned as is; a str is stripped of surrounding blanks
\* and read as an optional sign followed by decimal digits, anything else
\* raises ValueError
int(x) ==
    IF x.type = "int" THEN [error |-> "", value |-> x.value]
    ELSE LET t == RStrip(LStrip(x.text))
             negative == t # <<>> /\ Head(t) = "-"
             digits == IF negative THEN Tail(t) ELSE t
         IN IF digits # <<>> /\ \A i \in 1..Len(digits) : digits[i] \in {"0", "1"}
            THEN [error |-> "", value |-> IF negative THEN 0 - DecimalValue(digits)
                                          ELSE DecimalValue(digits)]
            ELSE [error |-> "ValueError", value |-> 0]

\* _prepare_host_data, lines 293-301: the certificate_id of the record
prepare_certificate_id(npm_config) ==
    LET cert_id_val == IF "certificate_id" \in DOMAIN npm_config
                       THEN npm_config["certificate_id"] ELSE PyInt(0)
        parsed == int(cert_id_val)
    IN IF cert_id_val.type = "str" /\ LowerText(cert_id_val.text) = <<"n", "e", "w">>
       THEN [raised |-> FALSE, warned |-> FALSE, certificate_id |-> PyStr(<<"n", "e", "w">>)]
       ELSE IF parsed.error = ""
       THEN [raised |-> FALSE, warned |-> FALSE, certificate_id |-> PyInt(parsed.value)]
       ELSE IF parsed.error = "ValueError"
       THEN [raised |-> FALSE, warned |-> TRUE, certificate_id |-> PyInt(0)]
       ELSE [raised |-> TRUE, warned |-> FALSE, certificate_id |-> PyInt(0)]

InitCert ==
    /\ Unstarted
    /\ \E npm_config \in CertConfigs :
          probe = [fn |-> "certificate_id", args |-> npm_config,
                   ret |-> [raised |-> FALSE, warned |-> FALSE, certificate_id |-> PyInt(0)]]

BuildCertificateId ==
    /\ probe.fn = "certificate_id"
    /\ probe' = [probe EXCEPT !.fn = "built", !.ret = prepare_certificate_id(probe.args)]
    /\ UNCHANGED <<svcVarsOnly, req, proc>>

NextCert == BuildCertificateId

SpecCert == InitCert /\ [][NextCert]_vars

\* ------------------------------------ _load_npm_hosts over any host list
\* What the meta of a listed host may be: written by hand, written by the
\* service (as an object or as its JSON text), or a value that is no object
\* although its text mentions the tag.
MetaShapes ==
    {ManualMeta,
     [form |-> "dict", managed_by |-> ManagedTag, container_id |-> 1],
     [form |-> "str", managed_by |-> ManagedTag, container_id |-> 1]}
    \cup {[form |-> f, managed_by |-> ManagedTag, container_id |-> 1] :
            f \in MetaForms \ {"dict", "str"}}

NameLists == {<<>>} \cup {<<d>> : d \in Domains}
             \cup {p \in Domains \X Domains : p[1] < p[2]}

ListedHost(hid, names, meta) ==
    [id |-> hid, domain_names |-> names, forward_host |-> 1, forward_port |-> 8001,
     meta |-> meta, enabled |-> TRUE]

NamesOf(host) == {host.domain_names[i] : i \in 1..Len(host.domain_names)}

\* the proxy manager binds a domain name to one host at most
HostLists ==
    {rem \in UNION {[1..n -> {ListedHost(0, names, meta) :
                                names \in NameLists, meta \in MetaShapes}] :
                      n \in 0..MaxListed} :
        \A h, k \in DOMAIN rem : h # k => NamesOf(rem[h]) \cap NamesOf(rem[k]) = {}}

\* The service runs with an empty cache (the list calls of start() failed);
\* container c declares domain c and container 1 is running.
InitLoad ==
    /\ current_npm_hosts = EmptyMap
    /\ managed_host_ids = {}
    /\ active_containers = {}
    /\ phase = "streaming"
    /\ sched = "running"
    /\ env = [c \in CIDs |-> IF c \in Domains THEN [NPM_HOST |-> c, NPM_PORT |-> 8000 + c]
                             ELSE NotProxyEnabled]
    /\ \E rem \in HostLists :
          /\ remote = [h \in DOMAIN rem |-> [rem[h] EXCEPT !.id = h]]
          /\ nextId = Len(rem) + 1
    /\ containers = [c \in CIDs |-> IF c = 1 THEN [running |-> TRUE, ip |-> 1]
                                    ELSE [running |-> FALSE, ip |-> 0]]
    /\ edits = 0
    /\ last = NoOp
    /\ req = ReqIdle
    /\ proc = ProcIdle
    /\ probe = ProbeIdle

\* _sync_all, its first statement: _load_npm_hosts. What follows in _sync_all,
\* on_container_start for every scanned container, is what HandleStart does.
\* An exception ends the scheduler thread.
LoadHosts(oc) ==
    /\ phase = "streaming"
    /\ sched = "running"
    /\ LET s == load_npm_hosts(Work, oc)
       IN /\ Commit(s)
          /\ sched' = IF s.raised THEN "dead" ELSE sched
          /\ last' = Observed("load", 0, s, 0)
    /\ UNCHANGED <<active_containers, phase, env, containers, edits, req, proc, probe>>

NextLoad ==
    \/ \E oc \in Outcomes : LoadHosts(oc)
    \/ \E c \in CIDs, oc \in Outcomes : HandleStart(c, oc)
    \/ \E c \in CIDs, ocs \in [Domains -> Outcomes] : HandleStop(c, ocs)
    \/ \E h \in HostIds : OperatorDeletes(h)

SpecLoad == InitLoad /\ [][NextLoad]_vars

\* The same service and host lists with the running container declaring any of
\* the domains, the second name of a listed host among them.
InitNames ==
    /\ current_npm_hosts = EmptyMap
    /\ managed_host_ids = {}
    /\ active_containers = {}
    /\ phase = "streaming"
    /\ sched = "running"
    /\ \E d \in Domains :
          env = [c \in CIDs |-> IF c = 1 THEN [NPM_HOST |-> d, NPM_PORT |-> 8001]
                                ELSE NotProxyEnabled]
    /\ \E rem \in HostLists :
          /\ remote = [h \in DOMAIN rem |-> [rem[h] EXCEPT !.id = h]]
          /\ nextId = Len(rem) + 1
    /\ containers = [c \in CIDs |-> IF c = 1 THEN [running |-> TRUE, ip |-> 1]
                                    ELSE [running |-> FALSE, ip |-> 0]]
    /\ edits = 0
    /\ last = NoOp
    /\ req = ReqIdle
    /\ proc = ProcIdle
    /\ probe = ProbeIdle

SpecNames == InitNames /\ [][NextLoad]_vars

\* --------------------------------------- the scheduled _sync_all, step by step
\* The periodic job runs _sync_all in the scheduler thread while the main thread
\* handles events; both work on self.current_npm_hosts and self.managed_host_ids.
\* proc = [pc, hosts, listed, todo, scanned]: the scheduler thread's position in
\* _sync_all, the listed hosts it has still to cache, the running containers the
\* scan has still to inspect, the scanned containers it has still to reconcile
\* and, for each of them, the descriptor the scan returned.
\*   "idle"       no pass in progress
\*   "clear"      the list is fetched (line 82), the cache not yet reset
\*   "fill"       at the head of the loop over the listed hosts (line 89)
\*   "own"        the head of hosts is cached (line 94), its meta not yet looked at
\*   "scan"       in the loop of scan_running_containers (docker_monitor.py, line 118)
\*   "reconcile"  in the loop over the scanned containers (line 230)
\*   "dead"       the thread was ended by an exception
\* Every list call is answered here.
RaceIdle == [pc |-> "idle", hosts |-> <<>>, listed |-> {}, todo |-> {}, scanned |-> EmptyMap]

InitRace ==
    /\ current_npm_hosts = EmptyMap
    /\ managed_host_ids = {}
    /\ active_containers = {}
    /\ phase = "init"
    /\ sched = "off"
    /\ env \in {e \in [CIDs -> UNION {EnvChoices(c) : c \in CIDs}] :
                  \A c \in CIDs : e[c] \in EnvChoices(c)}
    /\ \E kinds \in [Domains -> UNION {HostKinds(env, d) : d \in Domains}] :
          /\ \A d \in Domains : kinds[d] \in HostKinds(env, d)
          /\ remote = InitRemote(kinds)
          /\ nextId = Cardinality(DOMAIN remote) + 1
    /\ containers \in [CIDs -> {[running |-> FALSE, ip |-> 0], [running |-> TRUE, ip |-> 1]}]
    /\ \A c \in CIDs : containers[c].running => c = 1
    /\ edits = 0
    /\ last = NoOp
    /\ req = ReqIdle
    /\ proc = RaceIdle
    /\ probe = ProbeIdle

\* _load_npm_hosts, line 82: hosts = self.npm_client.get_proxy_hosts()
SyncList ==
    /\ phase \in {"starting", "streaming"}
    /\ sched = "running"
    /\ proc.pc = "idle"
    /\ proc' = [proc EXCEPT !.pc = "clear", !.hosts = get_proxy_hosts(remote, "ok")]
    /\ last' = Observed("sync_list", 0,
                        [Work EXCEPT !.calls = <<Call("list", 0, "-", 0, 0, EmptyMap, TRUE, 0)>>],
                        0)
    /\ UNCHANGED <<current_npm_hosts, managed_host_ids, active_containers, phase, sched,
                   remote, nextId, env, containers, edits, req, probe>>

\* _load_npm_hosts, lines 85-86: both collections are replaced by empty ones
SyncClear ==
    /\ phase \in {"starting", "streaming"}
    /\ proc.pc = "clear"
    /\ current_npm_hosts' = EmptyMap
    /\ managed_host_ids' = {}
    /\ proc' = [proc EXCEPT !.pc = "fill"]
    /\ last' = Observed("sync_clear", 0, Work, 0)
    /\ UNCHANGED <<active_containers, phase, sched, remote, nextId, env, containers, edits,
                   req, probe>>

\* _load_npm_hosts, lines 89-94: the next listed host is cached under its first
\* domain name, or skipped
SyncCache ==
    /\ phase \in {"starting", "streaming"}
    /\ proc.pc = "fill"
    /\ proc.hosts # <<>>
    /\ LET host == Head(proc.hosts)
           host_id == host.id
           domain == first_domain(host)
       IN IF host_id # 0 /\ domain # 0
          THEN /\ current_npm_hosts' = Put(current_npm_hosts, domain, host)
               /\ proc' = [proc EXCEPT !.pc = "own"]
          ELSE /\ current_npm_hosts' = current_npm_hosts
               /\ proc' = [proc EXCEPT !.hosts = Tail(@)]
    /\ last' = Observed("sync_cache", 0, Work, 0)
    /\ UNCHANGED <<managed_host_ids, active_containers, phase, sched, remote, nextId, env,
                   containers, edits, req, probe>>

\* _load_npm_hosts, lines 97-99: the id of the host just cached joins owned-ids
\* if its meta carries the tag
SyncOwn ==
    /\ phase \in {"starting", "streaming"}
    /\ proc.pc = "own"
    /\ LET host == Head(proc.hosts)
           meta == parse_meta(host.meta)
       IN IF meta.type # "dict"
          THEN /\ proc' = [proc EXCEPT !.pc = "dead"]
               /\ sched' = "dead"
               /\ managed_host_ids' = managed_host_ids
               /\ last' = [Observed("sync_own", 0, Work, 0) EXCEPT !.raised = TRUE]
          ELSE /\ proc' = [proc EXCEPT !.pc = "fill", !.hosts = Tail(@)]
               /\ sched' = sched
               /\ managed_host_ids' = IF meta.managed_by = ManagedTag
                                      THEN managed_host_ids \cup {host.id}
                                      ELSE managed_host_ids
               /\ last' = Observed("sync_own", 0, Work, 0)
    /\ UNCHANGED <<current_npm_hosts, active_containers, phase, remote, nextId, env,
                   containers, edits, req, probe>>

\* _sync_all, line 227, scan_running_containers, line 115: the running
\* containers are listed; with none the pass is over
SyncScanList ==
    /\ phase \in {"starting", "streaming"}
    /\ proc.pc = "fill"
    /\ proc.hosts = <<>>
    /\ LET running == {c \in CIDs : containers[c].running}
       IN proc' = [proc EXCEPT !.pc = IF running = {} THEN "idle" ELSE "scan",
                               !.listed = running]
    /\ last' = Observed("sync_scan", 0, Work, 0)
    /\ UNCHANGED <<current_npm_hosts, managed_host_ids, active_containers, phase, sched,
                   remote, nextId, env, containers, edits, req, probe>>

\* scan_running_containers, lines 118-122: the next listed container is
\* inspected as it is now; with an npm_config its descriptor joins the result
\* and is recorded in active_containers. After the last one _sync_all goes on
\* with the result.
SyncScanInspect ==
    /\ phase \in {"starting", "streaming"}
    /\ proc.pc = "scan"
    /\ LET c == CHOOSE x \in proc.listed : \A y \in proc.listed : x <= y
           info == get_container_info(c)
           todo == IF info.has_npm_config THEN proc.todo \cup {c} ELSE proc.todo
       IN /\ active_containers' = IF info.has_npm_config THEN active_containers \cup {c}
                                  ELSE active_containers
          /\ proc' = [proc EXCEPT !.listed = @ \ {c},
                                  !.todo = todo,
                                  !.scanned = IF info.has_npm_config THEN Put(@, c, info) ELSE @,
                                  !.pc = IF proc.listed # {c} THEN "scan"
                                         ELSE IF todo = {} THEN "idle" ELSE "reconcile"]
    /\ last' = Observed("sync_inspect", 0, Work, 0)
    /\ UNCHANGED <<current_npm_hosts, managed_host_ids, phase, sched, remote, nextId, env,
                   containers, edits, req, probe>>

\* _sync_all, lines 230-231: on_container_start for the next scanned container,
\* with the descriptor of the scan. An exception ends the scheduler thread.
SyncReconcile(oc) ==
    /\ phase \in {"starting", "streaming"}
    /\ proc.pc = "reconcile"
    /\ LET c == CHOOSE x \in proc.todo : \A y \in proc.todo : x <= y
           s == on_container_start(Work, proc.scanned[c], oc)
       IN /\ Commit(s)
          /\ sched' = IF s.raised THEN "dead" ELSE sched
          /\ proc' = [proc EXCEPT !.pc = IF s.raised THEN "dead"
                                         ELSE IF proc.todo = {c} THEN "idle" ELSE @,
                                  !.todo = @ \ {c},
                                  !.scanned = [x \in proc.todo \ {c} |-> @[x]]]
          /\ last' = Observed("sync_start", c, s, 0)
    /\ UNCHANGED <<active_containers, phase, env, containers, edits, req, probe>>

NextRace ==
    \/ \E loginOk \in BOOLEAN : ServiceStart(loginOk, "ok")
    \/ \E ocs \in [CIDs -> Outcomes] : InitialSync("ok", ocs)
    \/ \E c \in CIDs, oc \in Outcomes : HandleStart(c, oc)
    \/ \E c \in CIDs, ocs \in [Domains -> Outcomes] : HandleStop(c, ocs)
    \/ SyncList
    \/ SyncClear
    \/ SyncCache
    \/ SyncOwn
    \/ SyncScanList
    \/ SyncScanInspect
    \/ \E oc \in Outcomes : SyncReconcile(oc)

SpecRace == InitRace /\ [][NextRace]_vars

\* The same two threads while running containers stop. Docker emits the stop
\* (or die) event of a container once it has stopped; no container is started.
StopEvent(c, ocs) ==
    /\ ~containers[c].running
    /\ HandleStop(c, ocs)

NextStopRace ==
    \/ \E loginOk \in BOOLEAN : ServiceStart(loginOk, "ok")
    \/ \E ocs \in [CIDs -> Outcomes] : InitialSync("ok", ocs)
    \/ \E c \in CIDs, oc \in Outcomes : HandleStart(c, oc)
    \/ \E c \in CIDs, ocs \in [Domains -> Outcomes] : StopEvent(c, ocs)
    \/ SyncList
    \/ SyncClear
    \/ SyncCache
    \/ SyncOwn
    \/ SyncScanList
    \/ SyncScanInspect
    \/ \E oc \in Outcomes : SyncReconcile(oc)
    \/ \E c \in CIDs : DockerStop(c)

SpecStopRace == InitRace /\ [][NextStopRace]_vars

\* The event stream of start_monitoring beside the scheduled _sync_all. proc
\* has two more fields:
\*   events  the events Docker has emitted and the loop has not yet consumed
\*           (docker_monitor.py, line 151), oldest first
\*   stops   per container, how many times on_container_stop was called for it
EventsIdle ==
    [pc |-> "idle", hosts |-> <<>>, listed |-> {}, todo |-> {}, scanned |-> EmptyMap,
     events |-> <<>>, stops |-> [c \in CIDs |-> 0]]

InitEvents ==
    /\ current_npm_hosts = EmptyMap
    /\ managed_host_ids = {}
    /\ active_containers = {}
    /\ phase = "init"
    /\ sched = "off"
    /\ env \in {e \in [CIDs -> UNION {EnvChoices(c) : c \in CIDs}] :
                  \A c \in CIDs : e[c] \in EnvChoices(c)}
    /\ \E kinds \in [Domains -> UNION {HostKinds(env, d) : d \in Domains}] :
          /\ \A d \in Domains : kinds[d] \in HostKinds(env, d)
          /\ remote = InitRemote(kinds)
          /\ nextId = Cardinality(DOMAIN remote) + 1
    /\ containers \in [CIDs -> {[running |-> FALSE, ip |-> 0], [running |-> TRUE, ip |-> 1]}]
    /\ \A c \in CIDs : containers[c].running => c = 1
    /\ edits = 0
    /\ last = NoOp
    /\ req = ReqIdle
    /\ proc = EventsIdle
    /\ probe = ProbeIdle

\* A running container stops while the loop is subscribed: Docker emits a die
\* and then a stop event for it
ContainerStops(c) ==
    /\ phase = "streaming"
    /\ containers[c].running
    /\ containers' = [containers EXCEPT ![c] = [running |-> FALSE, ip |-> 0]]
    /\ proc' = [proc EXCEPT !.events = @ \o <<[status |-> "die", id |-> c],
                                              [status |-> "stop", id |-> c]>>]
    /\ last' = [NoOp EXCEPT !.op = "world"]
    /\ UNCHANGED <<current_npm_hosts, managed_host_ids, active_containers, phase, sched,
                   remote, nextId, env, edits, req, probe>>

\* start_monitoring, lines 151-175: the loop takes the oldest event; a stop or
\* die of a container in active_containers calls on_container_stop and pops it
ConsumeEvent(ocs) ==
    /\ phase = "streaming"
    /\ proc.events # <<>>
    /\ LET event == Head(proc.events)
           container_id == event.id
           known == container_id \in active_containers
           s == IF event.status \in {"stop", "die"} /\ known
                THEN on_container_stop(Work, container_id, ocs) ELSE Work
       IN /\ Commit(s)
          /\ active_containers' = IF event.status \in {"stop", "die"}
                                  THEN active_containers \ {container_id}
                                  ELSE active_containers
          /\ proc' = [proc EXCEPT !.events = Tail(@),
                                  !.stops[container_id] = IF known THEN @ + 1 ELSE @]
          /\ last' = [Observed("stop", container_id, s, 0) EXCEPT !.dispatched = known]
    /\ UNCHANGED <<phase, sched, env, containers, edits, req, probe>>

NextEvents ==
    \/ \E loginOk \in BOOLEAN : ServiceStart(loginOk, "ok")
    \/ \E ocs \in [CIDs -> Outcomes] : InitialSync("ok", ocs)
    \/ \E c \in CIDs : ContainerStops(c)
    \/ \E ocs \in [Domains -> Outcomes] : ConsumeEvent(ocs)
    \/ SyncList
    \/ SyncClear
    \/ SyncCache
    \/ SyncOwn
    \/ SyncScanList
    \/ SyncScanInspect
    \/ \E oc \in Outcomes : SyncReconcile(oc)

SpecEvents == InitEvents /\ [][NextEvents]_vars

\* ------------------------------------------------------------------ main.py
\* proc = [stop_event, scheduler, woken, stop_calls, health]
\*   stop_event  the threading.Event set by the signal handler
\*   scheduler   run_scheduler: "check" at the test of the while loop, "tick" in
\*               its body (the test read the event as not set), "ended" after it
\*   woken       stop_event.wait() of main has returned
\*   stop_calls  completed calls of service.stop()
\*   health      the liveness server: "serving" | "shutdown"
\* The initial state is main before service.start(): the signal handlers are
\* installed, the liveness server and the scheduler thread are started.
ProcInit == [stop_event |-> FALSE, scheduler |-> "check", woken |-> FALSE,
             stop_calls |-> 0, health |-> "serving"]

\* the methods class EnvoyService defines
ServiceMethods == {"__init__", "start", "_load_npm_hosts", "on_container_start",
                   "on_container_stop", "_sync_all", "_get_container_ip",
                   "_prepare_host_data", "_parse_meta"}

InitMain ==
    /\ current_npm_hosts = EmptyMap
    /\ managed_host_ids = {}
    /\ active_containers = {}
    /\ phase = "init"
    /\ sched = "off"
    /\ env \in {e \in [CIDs -> UNION {EnvChoices(c) : c \in CIDs}] :
                  \A c \in CIDs : e[c] \in EnvChoices(c)}
    /\ \E kinds \in [Domains -> UNION {HostKinds(env, d) : d \in Domains}] :
          /\ \A d \in Domains : kinds[d] \in HostKinds(env, d)
          /\ remote = InitRemote(kinds)
          /\ nextId = Cardinality(DOMAIN remote) + 1
    /\ containers \in [CIDs -> {[running |-> FALSE, ip |-> 0], [running |-> TRUE, ip |-> 1]}]
    /\ \A c \in CIDs : containers[c].running => c = 1
    /\ edits = 0
    /\ last = NoOp
    /\ req = ReqIdle
    /\ proc = ProcInit
    /\ probe = ProbeIdle

Alive == phase \notin {"exited", "returned"}

\* signal_handler: SIGINT or SIGTERM sets the stop event
Signal ==
    /\ Alive
    /\ ~proc.stop_event
    /\ proc' = [proc EXCEPT !.stop_event = TRUE]
    /\ last' = [NoOp EXCEPT !.op = "signal"]
    /\ UNCHANGED <<current_npm_hosts, managed_host_ids, active_containers, phase, sched,
                   remote, nextId, env, containers, edits, req, probe>>

\* (variant: the loop goes on whatever the stop event says)
SchedulerCheck_unconditional ==
    /\ Alive
    /\ proc.scheduler = "check"
    /\ proc' = [proc EXCEPT !.scheduler = "tick"]
    /\ UNCHANGED <<current_npm_hosts, managed_host_ids, active_containers, phase, sched,
                   remote, nextId, env, containers, edits, last, req, probe>>

\* run_scheduler, the test of `while not stop_event.is_set()`
SchedulerCheck ==
    /\ Alive
    /\ proc.scheduler = "check"
    /\ proc' = [proc EXCEPT !.scheduler = IF proc.stop_event THEN "ended" ELSE "tick"]
    /\ UNCHANGED <<current_npm_hosts, managed_host_ids, active_containers, phase, sched,
                   remote, nextId, env, containers, edits, last, req, probe>>

\* run_scheduler, the body of the loop: schedule.run_pending() runs the periodic
\* job if it is registered and due, then time.sleep(1). schedule does not catch
\* what a job raises and run_scheduler has no handler: an exception of _sync_all
\* leaves the loop and ends the thread.
SchedulerTick(due, listOc, ocs) ==
    /\ Alive
    /\ proc.scheduler = "tick"
    /\ due => sched = "running"
    /\ IF due
       THEN LET s == sync_all(Work, listOc, ocs)
            IN /\ Commit(s)
               /\ active_containers' = active_containers \cup ScannedIds
               /\ sched' = IF s.raised THEN "dead" ELSE sched
               /\ proc' = [proc EXCEPT !.scheduler = IF s.raised THEN "ended" ELSE "check"]
               /\ last' = Observed("sync", 0, s, 0)
       ELSE /\ proc' = [proc EXCEPT !.scheduler = "check"]
            /\ UNCHANGED <<current_npm_hosts, managed_host_ids, active_containers, sched,
                           remote, nextId, last>>
    /\ UNCHANGED <<phase, env, containers, edits, req, probe>>

\* start_monitoring: the events generator is exhausted (or KeyboardInterrupt is
\* caught): start_monitoring returns, start() returns True and main reaches
\* stop_event.wait()
StreamEnds ==
    /\ phase = "streaming"
    /\ phase' = "waiting"
    /\ last' = [NoOp EXCEPT !.op = "stream_end"]
    /\ UNCHANGED <<current_npm_hosts, managed_host_ids, active_containers, sched,
                   remote, nextId, env, containers, edits, req, proc, probe>>

\* start_monitoring: the events generator raises; the exception is logged and
\* raised again, start() returns False and main returns 1
StreamFails ==
    /\ phase = "streaming"
    /\ phase' = "exited"
    /\ sched' = "off"
    /\ last' = [NoOp EXCEPT !.op = "stream_error"]
    /\ UNCHANGED <<current_npm_hosts, managed_host_ids, active_containers,
                   remote, nextId, env, containers, edits, req, proc, probe>>

\* main after start() returned True: stop_event.wait() returns once the event is
\* set, then service.stop(), health_server.shutdown() and return 0. A method the
\* class does not define raises AttributeError at the call, which main's
\* `except Exception` turns into return 1.
MainStop ==
    /\ phase = "waiting"
    /\ proc.stop_event
    /\ IF "stop" \in ServiceMethods
       THEN /\ proc' = [proc EXCEPT !.woken = TRUE, !.stop_calls = @ + 1,
                                    !.health = "shutdown"]
            /\ phase' = "returned"
       ELSE /\ proc' = [proc EXCEPT !.woken = TRUE]
            /\ phase' = "exited"
    /\ sched' = "off"
    /\ last' = [NoOp EXCEPT !.op = "shutdown"]
    /\ UNCHANGED <<current_npm_hosts, managed_host_ids, active_containers,
                   remote, nextId, env, containers, edits, req, probe>>

NextMain ==
    \/ \E loginOk \in BOOLEAN, oc1 \in Outcomes : ServiceStart(loginOk, oc1)
    \/ \E listOc \in Outcomes, ocs \in [CIDs -> Outcomes] : InitialSync(listOc, ocs)
    \/ \E c \in CIDs, oc \in Outcomes : HandleStart(c, oc)
    \/ \E c \in CIDs, ocs \in [Domains -> Outcomes] : HandleStop(c, ocs)
    \/ Signal
    \/ SchedulerCheck
    \/ \E due \in BOOLEAN, listOc \in Outcomes, ocs \in [CIDs -> Outcomes] :
          SchedulerTick(due, listOc, ocs)
    \/ StreamEnds
    \/ StreamFails
    \/ MainStop

SpecMain == InitMain /\ [][NextMain]_vars

\* The scheduler is a thread of its own: whenever it can take a step of its loop
\* it eventually does, and a pass of _sync_all ends (every request is bounded by
\* max_retries).
SchedulerRuns ==
    \/ SchedulerCheck
    \/ \E due \in BOOLEAN, listOc \in Outcomes, ocs \in [CIDs -> Outcomes] :
          SchedulerTick(due, listOc, ocs)

SpecMainFair == SpecMain /\ WF_vars(SchedulerRuns)

\* ==================================================================== claims
\* What the handler of a start or stop event found before it ran
UnownedCached(d) ==
    d \in DOMAIN current_npm_hosts /\ current_npm_hosts[d].id \notin managed_host_ids

OwnedCached(d) ==
    d \in DOMAIN current_npm_hosts /\ current_npm_hosts[d].id \in managed_host_ids

Eligible(c) == ~(env[c].NPM_HOST = 0 \/ env[c].NPM_PORT = 0) /\ containers[c].ip # 0

\* the domains whose cached host is owned and names container c
BoundTo(c) ==
    {d \in DOMAIN current_npm_hosts :
        /\ current_npm_hosts[d].id \in managed_host_ids
        /\ current_npm_hosts[d].meta.container_id = c}

\* the step is the handling of a start event of container c
StartEventOf(c) == last'.op = "start" /\ last'.cid = c

\* the step is on_container_stop(c), dispatched for a recorded container
StopEventOf(c) == last'.op = "stop" /\ last'.cid = c /\ last'.dispatched

\* the body a start-path reconciliation of container c sends
BodyOf(c) ==
    [domain_names |-> <<env[c].NPM_HOST>>,
     forward_host |-> containers[c].ip,
     forward_port |-> env[c].NPM_PORT,
     meta |-> [form |-> "dict", managed_by |-> ManagedTag, container_id |-> c],
     enabled |-> TRUE]

\* ---- C1
UpdatesAreOwned ==
    \A i \in 1..Len(last.calls) :
        last.calls[i].op = "update" => last.calls[i].tag \in {ManagedTag, "-"}

GatedStart ==
    \A c \in CIDs :
        (StartEventOf(c) /\ Eligible(c) /\ UnownedCached(env[c].NPM_HOST))
            => (last'.calls = <<>> /\ last'.warned)

\* a handler leaves every host that does not carry the tag as it is
UntaggedUntouched ==
    last'.op \in {"service_start", "initial_sync", "start", "stop", "sync"}
        => \A h \in DOMAIN remote :
              remote[h].meta.managed_by # ManagedTag
                  => (h \in DOMAIN remote' /\ remote'[h] = remote[h])

CreatesWellFormed ==
    \A i \in 1..Len(last.calls) :
        last.calls[i].op = "create" => last.calls[i].data = BodyOf(last.calls[i].cid)

CreatePathStep ==
    \A c \in CIDs :
        (StartEventOf(c) /\ Eligible(c) /\ env[c].NPM_HOST \notin DOMAIN current_npm_hosts)
            => /\ Len(last'.calls) = 1
               /\ last'.calls[1].op = "create"
               /\ last'.calls[1].data = BodyOf(c)

\* C2: Create path. A start event of a proxy-enabled container with a usable IP
\* whose domain is not in the cache issues exactly one createHost call and no
\* updateHost call; every createHost body (of a start event or inside a full sync)
\* has domain_names = [domain], forward_host = the resolved IP, forward_port = the
\* declared port, enabled = true and meta = {managed_by: EnvoyNPM, container_id}.
C2_CreatePath == []CreatesWellFormed /\ [][CreatePathStep]_vars

C2_Witness ==
    /\ last.op = "start" /\ Len(last.calls) = 1
    /\ last.calls[1].op = "create" /\ last.calls[1].data.forward_host = 2

\* ---- C3
\* C3: Create success updates the cache. When createHost succeeds (201, the client
\* returns the new numeric id) the start-path reconciliation completes normally
\* and afterwards the cache maps the domain to a record with that id, and the id
\* is in owned-ids.
C3_CreateSuccessCached ==
    \A i \in 1..Len(last.calls) :
        (last.op = "start" /\ last.calls[i].op = "create" /\ last.calls[i].ok)
            => /\ ~last.raised
               /\ last.calls[i].domain \in DOMAIN current_npm_hosts
               /\ current_npm_hosts[last.calls[i].domain].id = last.calls[i].newid
               /\ last.calls[i].newid \in managed_host_ids

\* ---- C4
UpdatePathStep ==
    \A c \in CIDs :
        (StartEventOf(c) /\ Eligible(c) /\ OwnedCached(env[c].NPM_HOST))
            => LET d == env[c].NPM_HOST
                   old == current_npm_hosts[d]
                   call == last'.calls[1]
               IN /\ Len(last'.calls) = 1
                  /\ call.op = "update" /\ call.id = old.id
                  /\ call.data.forward_host = containers[c].ip
                  /\ call.data.enabled = TRUE
                  /\ call.data.meta.managed_by = ManagedTag
                  /\ call.data.meta.container_id = c
                  /\ managed_host_ids' = managed_host_ids
                  /\ call.ok =>
                        /\ DOMAIN current_npm_hosts' = DOMAIN current_npm_hosts
                        /\ \A x \in DOMAIN current_npm_hosts :
                              current_npm_hosts'[x] =
                                 IF x = d
                                 THEN [id |-> old.id,
                                       domain_names |-> call.data.domain_names,
                                       forward_host |-> call.data.forward_host,
                                       forward_port |-> call.data.forward_port,
                                       meta |-> call.data.meta,
                                       enabled |-> call.data.enabled]
                                 ELSE current_npm_hosts[x]

\* C4: Update path. A start event whose domain is in the cache under an owned host
\* id issues exactly one updateHost call against that id and no createHost call;
\* the body carries the newly resolved forward_host, enabled = true and meta with
\* the current container's id; on success the cached record of the domain is the
\* old record overwritten with the body, under the same host id.
C4_UpdatePath == [][UpdatePathStep]_vars

C4_Witness ==
    /\ last.op = "start" /\ Len(last.calls) = 1
    /\ last.calls[1].op = "update" /\ last.calls[1].ok
    /\ last.calls[1].data.forward_host = 2
    /\ current_npm_hosts[last.calls[1].domain].forward_host = 2
    /\ current_npm_hosts[last.calls[1].domain].meta.container_id = last.cid

\* ---- C5
StopStep ==
    \A c \in CIDs :
        (StopEventOf(c) /\ BoundTo(c) # {})
            => LET d == CHOOSE x \in BoundTo(c) : TRUE
                   old == current_npm_hosts[d]
                   call == last'.calls[1]
               IN /\ Len(last'.calls) = 1
                  /\ call.op = "update" /\ call.id = old.id
                  /\ call.data = [enabled |-> FALSE]
                  /\ managed_host_ids' = managed_host_ids
                  /\ call.ok =>
                        current_npm_hosts' =
                            [current_npm_hosts EXCEPT ![d] = [old EXCEPT !.enabled = FALSE]]

StopNoopStep ==
    \A c \in CIDs :
        (StopEventOf(c) /\ BoundTo(c) = {})
            => /\ last'.calls = <<>>
               /\ current_npm_hosts' = current_npm_hosts
               /\ managed_host_ids' = managed_host_ids
               /\ remote' = remote

\* C6: Stop is a no-op when nothing is bound. A stop or die event of container X
\* issues no API call and leaves the cache as it is whenever no cached host is
\* both owned and tagged with X.
C6_StopNoop == [][StopNoopStep]_vars

\* on_container_stop ran for a recorded container whose domain is cached under a
\* host that is not owned or names another container, with owned hosts in the cache
C6_Witness ==
    /\ last.op = "stop" /\ last.dispatched /\ last.calls = <<>>
    /\ env[last.cid].NPM_HOST \in DOMAIN current_npm_hosts
    /\ managed_host_ids # {}

\* ---- C7
\* C7: Full-sync idempotence. Of two full syncs in succession, with nothing else
\* changing and every request answered, the second leaves owned-ids as the first
\* left it, issues no createHost call and at most one updateHost call per domain.
C7_SyncIdempotent ==
    (last.op = "sync" /\ last.run = 2)
        => /\ managed_host_ids = last.prev_ids
           /\ \A i \in 1..Len(last.calls) : last.calls[i].op # "create"
           /\ \A i, j \in 1..Len(last.calls) :
                 (last.calls[i].op = "update" /\ last.calls[j].op = "update"
                  /\ last.calls[i].domain = last.calls[j].domain) => i = j

AllFaults == \A i \in 1..Len(req.calls) : req.calls[i].o.kind = "fault"

\* C9: Retry budget. When every attempt of a logical request raises a
\* transport-level fault, the client makes exactly max_retries HTTP calls, waits
\* retry_delay * 2^attempt (attempt = 0, 1, ...) between consecutive attempts and
\* not after the last one, and returns the response attached to the last fault
\* if there is one, otherwise None.
C9_RetryBudget ==
    (req.pc = "done" /\ AllFaults)
        => /\ Len(req.calls) = req.N
           /\ \A i \in 1..Len(req.calls) : req.calls[i].attempt = i - 1
           /\ Len(req.sleeps) = IF req.N = 0 THEN 0 ELSE req.N - 1
           /\ \A i \in 1..Len(req.sleeps) : req.sleeps[i] = req.B * 2^(i - 1)
           /\ req.logins = 0
           /\ req.result = IF req.N > 0 /\ req.calls[req.N].o.status # 0
                           THEN [kind |-> "response", status |-> req.calls[req.N].o.status,
                                 token |-> TRUE]
                           ELSE [kind |-> "none", status |-> 0, token |-> FALSE]

C9_Witness ==
    /\ req.pc = "done" /\ AllFaults
    /\ req.N = 3 /\ req.B = 2
    /\ req.sleeps = <<2, 4>>
    /\ req.calls[3].o.status = 500 /\ req.result.status = 500

\* ---- C10
\* the first response is a 401 with attempts left, and the login() it causes is true
ReauthSucceeded ==
    /\ req.pc \in {"running", "done"}
    /\ req.N >= 2
    /\ Len(req.calls) >= 1
    /\ req.calls[1].o.kind = "response" /\ req.calls[1].o.status = 401
    /\ Len(req.login_results) >= 1 /\ req.login_results[1]

RetryAnswered ==
    /\ Len(req.calls) >= 2
    /\ req.calls[2].o.kind = "response" /\ req.calls[2].o.status # 401

SecondUnauthorized ==
    /\ ReauthSucceeded
    /\ Len(req.calls) >= 2
    /\ req.calls[2].o.kind = "response" /\ req.calls[2].o.status = 401

\* C11: Reauth at most once per logical request. For every max_retries, when the
\* retry after a successful re-authentication is answered 401 again, login() is
\* not called a second time by the request, no further call is made, and that
\* second 401 is what the caller gets.
C11_ReauthOnce ==
    SecondUnauthorized
        => /\ req.reauths = 1
           /\ req.pc = "done"
           /\ Len(req.calls) = 2
           /\ req.result = req.calls[2].o

\* ---- C12
\* a login() called by the request's own loop returned false
ReauthFailed ==
    \E k \in 1..Len(req.login_results) : ~req.login_results[k]

\* C12: Reauth failure. When a response is 401, attempts remain and the login()
\* it causes returns false, the request ends there: the 401 it received is
\* returned, and no further call is made for the request (no later login()
\* either).
C12_ReauthFailureReturns ==
    ReauthFailed
        => /\ req.pc = "done"
           /\ ~req.login_results[Len(req.login_results)]
           /\ \A k \in 1..(Len(req.login_results) - 1) : req.login_results[k]
           /\ req.reauths = Len(req.login_results)
           /\ req.calls[Len(req.calls)].o.kind = "response"
           /\ req.calls[Len(req.calls)].o.status = 401
           /\ req.calls[Len(req.calls)].attempt < req.N - 1
           /\ req.result = req.calls[Len(req.calls)].o

\* the first 401 of a request with three attempts, login() false after the token
\* endpoint was tried
C12_Witness ==
    /\ ReauthFailed /\ req.pc = "done" /\ req.N = 3
    /\ Len(req.calls) = 1 /\ req.token_calls >= 1
    /\ req.result.status = 401

\* ---- C13
\* the calls of the request that raised, among the first n
RECURSIVE FaultsBefore(_)
FaultsBefore(n) ==
    IF n = 0 THEN 0
    ELSE FaultsBefore(n - 1) + (IF req.calls[n].o.kind = "fault" THEN 1 ELSE 0)

\* C13: Non-401 responses are never retried. A response with any status other
\* than 401 (200, 201, 400, 500) ends the logical request in the attempt that
\* received it: it is the last call, it is what the caller gets, and no wait
\* follows it (the only waits are those after the faults before it). A 400
\* answered to the first call therefore costs exactly one call.
C13_OtherStatusReturned ==
    \A i \in 1..Len(req.calls) :
        (req.calls[i].o.kind = "response" /\ req.calls[i].o.status # 401)
            => /\ i = Len(req.calls)
               /\ req.pc = "done"
               /\ req.result = req.calls[i].o
               /\ Len(req.sleeps) = FaultsBefore(i - 1)

C13_Witness ==
    /\ req.pc = "done" /\ req.N = 3 /\ req.kind = "create"
    /\ Len(req.calls) = 1
    /\ req.calls[1].o.kind = "response" /\ req.calls[1].o.status = 400
    /\ req.result.status = 400 /\ req.sleeps = <<>>

\* ---- C14
\* every call of the request was answered with HTTP 500
AllAnswered500 ==
    /\ Len(req.calls) >= 1
    /\ \A i \in 1..Len(req.calls) :
          req.calls[i].o.kind = "response" /\ req.calls[i].o.status = 500

\* C14: Server faults follow the retry budget. When every attempt of a createHost
\* request is answered with HTTP 500 and max_retries = 3, the client makes
\* exactly 3 HTTP calls, returns the last 500 response, and create_proxy_host
\* returns None.
C14_ServerFaultBudget ==
    (req.pc = "done" /\ req.kind = "create" /\ req.N = 3 /\ AllAnswered500)
        => /\ Len(req.calls) = 3
           /\ req.result = req.calls[3].o
           /\ create_returns(req.result) = "None"

\* ---- C15
\* the token of the last login() that returned true before the i-th call of the
\* logical request (0 if there is none)
BearerDue(i) ==
    LET done == {k \in 1..Len(req.login_log) :
                    req.login_log[k].ok /\ req.login_log[k].at < i}
    IN IF done = {} THEN 0
       ELSE req.login_log[CHOOSE k \in done : \A j \in done : j <= k].token

\* C15: login() reports truthfully. Every login() (called at start-up or by the
\* retry loop on a 401) returns true exactly when its token request ended with a
\* response of status 200 that carries a token; then that token is self.token and
\* the Authorization header of the session, and every later call of the request
\* is sent with the token of the latest successful login(). For any other outcome
\* (other status, no token, None, recursion cut off) it returns false and the
\* header is not changed.
C15_LoginTruthful ==
    /\ \A k \in 1..Len(req.login_log) :
          LET e == req.login_log[k]
              before == IF k = 1 THEN 0 ELSE req.login_log[k - 1].bearer
          IN /\ e.ok <=> (e.resp.kind = "response" /\ e.resp.status = 200 /\ e.resp.token)
             /\ e.ok => (e.token # 0 /\ e.bearer = e.token)
             /\ ~e.ok => e.bearer = before
    /\ \A i \in 1..Len(req.calls) : req.calls[i].bearer = BearerDue(i)
    /\ req.bearer = BearerDue(Len(req.calls) + 1)

\* a request answered 401 and sent again with the token of a successful login(),
\* and a login() that returned false on a 200 without token
C15_Witness ==
    /\ req.pc = "done" /\ req.kind = "update"
    /\ Len(req.calls) = 2 /\ req.calls[1].bearer = 0 /\ req.calls[2].bearer # 0
    /\ \E k \in 1..Len(req.login_log) :
          ~req.login_log[k].ok /\ req.login_log[k].resp.status = 200

\* ---- C16
\* the handling of a start or stop event in which every API call failed
FailedEventStep ==
    /\ last'.op \in {"start", "stop"}
    /\ last'.calls # <<>>
    /\ \A i \in 1..Len(last'.calls) : ~last'.calls[i].ok

\* C16: Failed operations leave the cache untouched. When create_proxy_host
\* returns None or update_proxy_host returns False in the handling of a start
\* event or of a stop event, current_npm_hosts and managed_host_ids are after the
\* handler what they were before it.
C16_FailureLeavesCache ==
    [][FailedEventStep
          => (current_npm_hosts' = current_npm_hosts /\ managed_host_ids' = managed_host_ids)]_vars

\* a failed update of a host whose cached forward target is not the container's
\* current address
C16_Witness ==
    /\ last.op = "start" /\ Len(last.calls) = 1
    /\ last.calls[1].op = "update" /\ ~last.calls[1].ok
    /\ current_npm_hosts[last.calls[1].domain].forward_host # containers[last.cid].ip

\* ---- C17
\* the pass reached container c: it issued a call for it, or refused to act on
\* the unowned host of its domain
Reconciled(c) ==
    \/ \E i \in 1..Len(last.calls) : last.calls[i].cid = c
    \/ UnownedCached(env[c].NPM_HOST)

\* C17: Batch isolation. In a full sync (the initial one or a scheduled one) every
\* running proxy-enabled container with a usable IP is reconciled, whatever
\* happened to the containers before it in the pass (a failed API call or an
\* exception).
C17_BatchIsolation ==
    last.op \in {"sync", "initial_sync"}
        => \A c \in ScannedIds : Eligible(c) => Reconciled(c)

\* ---- C18
\* C18: Event-stream resilience. Once the initial login() has succeeded, no
\* failure inside the handling of an event or inside a full sync ends the process
\* or the event loop: the only way the process ends is the failed initial login.
C18_EventStreamResilient ==
    phase = "exited" => last.login = "failed"

\* ---- C19
AfterFailedLogin ==
    last.login = "failed"
        => /\ phase = "exited"
           /\ sched = "off"
           /\ last.calls = <<>>
           /\ current_npm_hosts = EmptyMap /\ managed_host_ids = {}
           /\ active_containers = {}

\* C19: Failed initial authentication is fatal and side-effect free. If login()
\* returns false at start-up, start() returns False and main returns 1: no API
\* call was made for the host list, the periodic job is not registered, no full
\* sync runs, no event is ever handled; cache and owned-ids are empty and nothing
\* happens afterwards.
C19_FailedLoginFatal ==
    []AfterFailedLogin /\ [][last.login # "failed"]_vars

\* the login failed although there were hosts to load and a container to reconcile
C19_Witness ==
    /\ last.login = "failed" /\ phase = "exited"
    /\ remote # EmptyMap /\ containers[1].running

\* ---- C20
\* C20: Start-sequence ordering. On a successful start: login, then one complete
\* full sync, then the periodic job is registered, then events are consumed. While
\* the initial full sync has not completed the periodic job is not registered, no
\* periodic full sync has run and no event has been handled.
C20_StartOrder ==
    phase = "starting"
        => /\ sched = "off"
           /\ last.op \notin {"sync", "start", "stop"}

\* ---------------------------------------------------------------------- C21
\* C21 (SpecMain): once the stop signal is set, the event loop handles no
\* further lifecycle event: no start or stop reconciliation begins in a state
\* in which the stop event is set.
HandlesEvent == last' # last /\ last'.op \in {"start", "stop"}

C21_EventsStopWithSignal == [][proc.stop_event => ~HandlesEvent]_vars

\* ---------------------------------------------------------------------- C22
\* C22 (SpecMainFair): the scheduler loop tests the stop event before every
\* tick. Once the event is set the loop enters no new tick, a full sync fires
\* only from the tick that was in progress, and the loop ends (or the process
\* does).
NoNewTick == proc.stop_event /\ proc.scheduler = "check" => proc'.scheduler # "tick"

SyncOnlyInProgress ==
    proc.stop_event /\ proc.scheduler # "tick" => ~(last' # last /\ last'.op = "sync")

SchedulerOver == proc.scheduler = "ended" \/ ~Alive

C22_SchedulerStops ==
    /\ [][NoNewTick]_vars
    /\ [][SyncOnlyInProgress]_vars
    /\ (proc.stop_event ~> SchedulerOver)

\* the signal arrived during a tick, the tick ran its full sync, and the next
\* test of the loop ended it
C22_Witness ==
    /\ proc.stop_event
    /\ proc.scheduler = "ended"
    /\ sched = "running"
    /\ last.op = "sync"
    /\ Alive

\* ---------------------------------------------------------------------- C23
\* C23 (SpecMain): an exception of a scheduled full sync does not end the
\* scheduler loop: the loop ends only when the stop event is set.
C23_SchedulerSurvivesFailure == proc.scheduler = "ended" => proc.stop_event

\* ---------------------------------------------------------------------- C27
\* C27 (SpecMain): once main has been woken by the stop event after a
\* successful start, service.stop() has run exactly once, the liveness server
\* is shut down and main has returned 0; a failed start makes main return 1.
C27_GracefulShutdown ==
    /\ proc.woken => phase = "returned" /\ proc.stop_calls = 1 /\ proc.health = "shutdown"
    /\ last.op = "service_start" /\ last.login = "failed" => phase = "exited"

\* ---------------------------------------------------------------------- C24
\* C24 (SpecLoad): a listed host whose meta cannot be deserialized into an
\* object (a string that is not JSON, the empty string, a missing or non-object
\* value, JSON text of something that is no object) is unowned: loading never
\* raises, the id of such a host is never in owned-ids, and no update is
\* addressed to a host without the tag.
Undeserializable(meta) == meta.form \notin {"dict", "str"}

MalformedIds == {h \in DOMAIN remote : Undeserializable(remote[h].meta)}

LoadRaised == last.op = "load" /\ last.raised

C24_MalformedMetaUnowned ==
    /\ ~LoadRaised
    /\ MalformedIds \cap managed_host_ids = {}
    /\ \A i \in 1..Len(last.calls) :
          last.calls[i].op = "update" => last.calls[i].tag # ""

\* ---------------------------------------------------------------------- C25
\* C25 (SpecLoad): after a loading step whose list call succeeded, whatever
\* the cache held before, by-domain has exactly one entry for each first domain
\* name of the listed hosts that have an id and a domain name, each entry being
\* such a listed host, and owned-ids is exactly the set of ids of those listed
\* hosts whose meta carries the tag.
Cacheable == {h \in DOMAIN remote : remote[h].id # 0 /\ Len(remote[h].domain_names) > 0}

CarriesTag(host) == ~Undeserializable(host.meta) /\ host.meta.managed_by = ManagedTag

C25_LoadRebuildsCache ==
    last.op = "load" /\ last.calls[1].ok =>
        /\ DOMAIN current_npm_hosts = {first_domain(remote[h]) : h \in Cacheable}
        /\ \A d \in DOMAIN current_npm_hosts :
              \E h \in Cacheable : first_domain(remote[h]) = d /\ current_npm_hosts[d] = remote[h]
        /\ managed_host_ids = {h \in Cacheable : CarriesTag(remote[h])}

\* ---------------------------------------------------------------------- C26
\* C26 (SpecFlags): in the record sent, ssl_forced, allow_websocket_upgrade and
\* hsts_enabled are true exactly when NPM_SSL, NPM_ENABLE_WS and NPM_ENABLE_HSTS
\* are declared as "true" in any letter case, and block_exploits is true.
DeclaredTrue(env_dict, var) == env_dict[var] \in {"true", "True", "TRUE"}

C26_FlagsReachRecord ==
    probe.fn = "sent" =>
        /\ probe.ret.ssl_forced = DeclaredTrue(probe.args, "NPM_SSL")
        /\ probe.ret.allow_websocket_upgrade = DeclaredTrue(probe.args, "NPM_ENABLE_WS")
        /\ probe.ret.hsts_enabled = DeclaredTrue(probe.args, "NPM_ENABLE_HSTS")
        /\ probe.ret.block_exploits

\* ---------------------------------------------------------------------- C29
\* C29 (SpecIp): the resolved IP is that of the preferred network when it is
\* named, present and has an IP; otherwise that of the first network in the
\* reported order that has an IP; otherwise there is none.
Preferred(info) ==
    {i \in 1..Len(info.networks) :
        /\ info.npm_config.network # ""
        /\ info.networks[i].name = info.npm_config.network
        /\ info.networks[i].ip_address # 0}

WithIp(info) == {i \in 1..Len(info.networks) : info.networks[i].ip_address # 0}

ResolvedIp(info) ==
    IF Preferred(info) # {}
    THEN info.networks[CHOOSE i \in Preferred(info) : TRUE].ip_address
    ELSE IF WithIp(info) # {}
    THEN info.networks[CHOOSE i \in WithIp(info) : \A j \in WithIp(info) : i <= j].ip_address
    ELSE 0

C29_TargetIp == probe.fn = "returned" => probe.ret = ResolvedIp(probe.args)

\* the preferred network is not the first one with an IP, and its IP is returned
C29_Witness ==
    /\ probe.fn = "returned"
    /\ Preferred(probe.args) # {}
    /\ probe.args.networks[1].ip_address \notin {0, probe.ret}

\* ---------------------------------------------------------------------- C30
\* C30 (SpecStart): the start-path reconciliation of a container that is not
\* proxy-enabled or has no usable IP issues no API call and changes neither
\* by-domain nor owned-ids: a start event of such a container leaves both as
\* they were with an empty call log, and a full sync issues no call for it and
\* caches for it nothing but the records as listed.
SyncStep == last' # last /\ last'.op \in {"sync", "initial_sync"}

NamesInCache(c) ==
    {d \in DOMAIN current_npm_hosts' : current_npm_hosts'[d].meta.container_id = c}

IneligibleStep ==
    \A c \in CIDs : ~Eligible(c) =>
        /\ StartEventOf(c) =>
              /\ last'.calls = <<>>
              /\ current_npm_hosts' = current_npm_hosts
              /\ managed_host_ids' = managed_host_ids
        /\ SyncStep =>
              /\ \A i \in 1..Len(last'.calls) : last'.calls[i].cid # c
              /\ \A d \in NamesInCache(c) :
                    /\ current_npm_hosts'[d].id \in DOMAIN remote
                    /\ current_npm_hosts'[d] = remote[current_npm_hosts'[d].id]

C30_IneligibleNoCalls == [][IneligibleStep]_vars

\* a full sync that reconciled one container and passed over a running,
\* proxy-enabled one without an IP
C30_Witness ==
    /\ last.op = "sync"
    /\ Len(last.calls) >= 2
    /\ \E c \in CIDs : /\ containers[c].running
                       /\ has_npm_config(env[c])
                       /\ containers[c].ip = 0

\* ---------------------------------------------------------------------- C28
\* C28 (SpecRace): however the statements of a scheduled full sync interleave
\* with the handling of start events, no create is issued for a domain that is
\* bound to a host of the remote list when the call is made, and no host whose
\* meta carries the tag is passed over as a manual one.
StartStep == last' # last /\ last'.op \in {"start", "sync_start"}

NoDuplicateCreate ==
    \A i \in 1..Len(last'.calls) :
        last'.calls[i].op = "create" => ~DomainTaken(remote, last'.calls[i].domain)

OwnedTakenForManual ==
    /\ last'.warned
    /\ \E h \in DOMAIN remote :
          /\ first_domain(remote[h]) = env[last'.cid].NPM_HOST
          /\ CarriesTag(remote[h])

C28_InterleavingTolerated ==
    [][StartStep => NoDuplicateCreate /\ ~OwnedTakenForManual]_vars

\* ---------------------------------------------------------------------- C31
\* the step is the handling of one lifecycle event
EventStep == last' # last /\ last'.op \in {"start", "stop"}

\* the domains whose by-domain entry the step added, removed or changed
ChangedDomains ==
    {d \in (DOMAIN current_npm_hosts) \cup (DOMAIN current_npm_hosts') :
        \/ d \notin DOMAIN current_npm_hosts
        \/ d \notin DOMAIN current_npm_hosts'
        \/ current_npm_hosts'[d] # current_npm_hosts[d]}

\* the entries the step did not change are owned after it iff they were before
OthersKept ==
    \A d \in (DOMAIN current_npm_hosts) \ ChangedDomains :
        (current_npm_hosts'[d].id \in managed_host_ids')
            <=> (current_npm_hosts[d].id \in managed_host_ids)

\* the hosts the calls of the step were addressed to (0: the host to create)
HostsCalled == {last'.calls[i].id : i \in 1..Len(last'.calls)}

\* the cached domains whose host is owned and whose parsed meta names c
NamedBy(c) ==
    {d \in DOMAIN current_npm_hosts :
        /\ current_npm_hosts[d].id \in managed_host_ids
        /\ parse_meta(current_npm_hosts[d].meta).container_id = c}

StartLocal ==
    \A c \in CIDs : StartEventOf(c) =>
        /\ Len(last'.calls) <= 1
        /\ \A i \in 1..Len(last'.calls) : last'.calls[i].domain = env[c].NPM_HOST
        /\ ChangedDomains \subseteq {env[c].NPM_HOST}
        /\ OthersKept

StopLocal ==
    \A c \in CIDs : (last'.op = "stop" /\ last'.cid = c) =>
        LET named == IF last'.dispatched THEN NamedBy(c) ELSE {}
        IN /\ Len(last'.calls) = Cardinality(named)
           /\ \A d \in named : \E i \in 1..Len(last'.calls) :
                 /\ last'.calls[i].domain = d
                 /\ last'.calls[i].id = current_npm_hosts[d].id
                 /\ last'.calls[i].op = "update"
                 /\ last'.calls[i].data = [enabled |-> FALSE]
           /\ ChangedDomains \subseteq named
           /\ managed_host_ids' = managed_host_ids
           /\ OthersKept

CertConfigured == "certificate_id" \in DOMAIN probe.args

C32_CertificateIdDomain ==
    (probe.fn = "built" /\ CertConfigured) =>
        LET given == probe.args["certificate_id"]
            got == probe.ret.certificate_id
        IN /\ ~probe.ret.raised
           /\ \/ got = PyStr(<<"n", "e", "w">>)
              \/ /\ int(given).error = ""
                 /\ got.type = "int" /\ got.value >= 0 /\ got.value = int(given).value
              \/ /\ int(given).error # ""
                 /\ got = PyInt(0)

\* ---------------------------------------------------------------------- C33
\* C33 (SpecStopRace): however the handling of events interleaves with the
\* statements of a scheduled full sync, a host that was disabled by the
\* handling of a stop event stays disabled as long as no running container
\* declares its domain: a full sync that scanned the containers before the stop
\* does not enable it again.
NoneRunningFor(d) ==
    \A c \in CIDs : containers[c].running => ~(has_npm_config(env[c]) /\ env[c].NPM_HOST = d)

NoneRunningAfterFor(d) ==
    \A c \in CIDs : containers'[c].running => ~(has_npm_config(env[c]) /\ env[c].NPM_HOST = d)

StaysDisabled ==
    \A h \in DOMAIN remote :
        (/\ ~remote[h].enabled
         /\ NoneRunningFor(first_domain(remote[h]))
         /\ NoneRunningAfterFor(first_domain(remote[h])))
            => (h \in DOMAIN remote' /\ ~remote'[h].enabled)

C33_StoppedStaysDisabled == [][StaysDisabled]_vars

\* ---------------------------------------------------------------------- C34
\* C34 (SpecReq): whatever the remote side answers, the token endpoint
\* included, a logical request makes at most max_retries HTTP calls to its own
\* endpoint and causes at most max_retries - 1 re-authentications (runs of
\* login(), those started inside login() included); with max_retries = 1 a 401
\* is returned without any re-authentication.
OwnLoopWithinBudget ==
    /\ Len(req.calls) <= req.N
    /\ req.reauths <= IF req.N = 0 THEN 0 ELSE req.N - 1

C34_RequestWithinBudget ==
    req.pc \in {"running", "done"} =>
        /\ OwnLoopWithinBudget
        /\ req.logins <= IF req.N = 0 THEN 0 ELSE req.N - 1
        /\ (req.N = 1 /\ Len(req.calls) = 1) =>
              /\ req.pc = "done"
              /\ req.logins = 0
              /\ req.calls[1].o.kind = "response" => req.result = req.calls[1].o

\* ---------------------------------------------------------------------- C35
\* C35 (Spec): a full sync whose list call failed issues no createHost call
\* for a domain that was bound in the cache when the pass began.
ListFailed == last'.calls[1].op = "list" /\ ~last'.calls[1].ok

NoCreateForBound ==
    \A i \in 1..Len(last'.calls) :
        last'.calls[i].op = "create" => last'.calls[i].domain \notin DOMAIN current_npm_hosts

C35_FailedListNoCreate == [][(SyncStep /\ ListFailed) => NoCreateForBound]_vars

\* ---------------------------------------------------------------------- C36
\* C36 (Spec): when the cached owned host of container X's domain names
\* another container Y (a start reconciliation of Y has updated it since), a
\* stop or die event of X issues no API call and leaves the host as it is,
\* enabled if it was.
ReboundFrom(c) ==
    {d \in DOMAIN current_npm_hosts :
        /\ d = env[c].NPM_HOST
        /\ current_npm_hosts[d].id \in managed_host_ids
        /\ current_npm_hosts[d].meta.container_id \in CIDs \ {c}}

StaleStopStep ==
    \A c \in CIDs :
        (StopEventOf(c) /\ ReboundFrom(c) # {})
            => /\ last'.calls = <<>>
               /\ remote' = remote
               /\ current_npm_hosts' = current_npm_hosts
               /\ managed_host_ids' = managed_host_ids

C36_StaleStopHarmless == [][StaleStopStep]_vars

\* container X's stop was dispatched after a start of Y had moved the host of
\* their domain to Y's address; the host is still enabled
C36_Witness ==
    /\ last.op = "stop" /\ last.dispatched /\ last.calls = <<>>
    /\ \E d \in DOMAIN current_npm_hosts :
          LET host == current_npm_hosts[d]
          IN /\ d = env[last.cid].NPM_HOST
             /\ host.id \in managed_host_ids
             /\ host.meta.container_id \in CIDs \ {last.cid}
             /\ host.forward_host = 2
             /\ host.forward_port = env[host.meta.container_id].NPM_PORT
             /\ host.id \in DOMAIN remote /\ remote[host.id].enabled

\* ---------------------------------------------------------------------- C37
\* C37 (Spec): right after a start event of container X whose createHost
\* succeeded, the event loop is still consuming events, X is recorded as
\* active, the cache holds the created host as owned and naming X, and the
\* handling of a stop event of X issues updateHost(id, {enabled: false}) for it.
CreatedByStart(i) ==
    /\ last.op = "start"
    /\ last.calls[i].op = "create"
    /\ last.calls[i].ok

StopWouldDisable(c, host_id) ==
    LET s == on_container_stop(Work, c, [d \in Domains |-> "ok"])
    IN \E k \in 1..Len(s.calls) :
          /\ s.calls[k].op = "update"
          /\ s.calls[k].id = host_id
          /\ s.calls[k].data = [enabled |-> FALSE]

C37_StopAfterCreate ==
    \A i \in 1..Len(last.calls) :
        CreatedByStart(i) =>
            /\ phase = "streaming"
            /\ last.cid \in active_containers
            /\ StopWouldDisable(last.cid, last.calls[i].newid)

\* ---------------------------------------------------------------------- C38
\* C38 (Spec): a full sync (the initial one or a scheduled one) issues at most
\* one createHost or updateHost call per domain, whatever containers are
\* running, two running containers that declare the same domain included.
IsWrite(call) == call.op \in {"create", "update"}

C38_OneWritePerDomain ==
    last.op \in {"sync", "initial_sync"} =>
        \A i, j \in 1..Len(last.calls) :
            (IsWrite(last.calls[i]) /\ IsWrite(last.calls[j])
             /\ last.calls[i].domain = last.calls[j].domain) => i = j

\* ---------------------------------------------------------------------- C39
\* C39 (SpecEvents): the event loop takes the events one at a time, oldest
\* first; a stop or die event calls on_container_stop exactly when the container
\* is in active_containers and leaves it out of active_containers; so the die
\* and the stop event of one stop of a container call on_container_stop for it
\* once at most.
StopDispatch ==
    last'.op = "stop" =>
        /\ last'.dispatched = (last'.cid \in active_containers)
        /\ last'.cid \notin active_containers'
        /\ ~last'.dispatched => last'.calls = <<>>

OneStopReconciliation == \A c \in CIDs : proc.stops[c] <= 1

C39_StopDispatchedOnce == [][StopDispatch]_vars /\ []OneStopReconciliation

\* ---------------------------------------------------------------------- C40
\* C40 (SpecNames): when the cache is what _load_npm_hosts makes of a successful
\* list of the hosts as they are, a start event issues no create for a domain
\* that is among the domain names of a listed host, first or not.
FreshlyLoaded ==
    LET s == load_npm_hosts(Work, "ok")
    IN /\ ~s.raised
       /\ s.hosts = current_npm_hosts
       /\ s.ids = managed_host_ids

NoCreateForNamed ==
    \A i \in 1..Len(last'.calls) :
        last'.calls[i].op = "create" => ~DomainTaken(remote, last'.calls[i].domain)

C40_SecondaryNamesProtected ==
    [][(FreshlyLoaded /\ last' # last /\ last'.op = "start") => NoCreateForNamed]_vars

====
